---- MODULE Spec2Model ----
(***************************************************************************)
(* A model of the video elicitation annotation backend                    *)
(* (src/backend/main.py, database.py, models.py, transcription.py,        *)
(* llm_service.py).                                                        *)
(*                                                                         *)
(* The specifications of the module:                                       *)
(*   SpecRange    the byte-range media delivery of get_video_file;         *)
(*   SpecShrink   the same, with a file that is cut while it is streamed   *)
(*                and a consumer that keeps reading the stream;            *)
(*   Spec         the annotation pipeline: the create, update and delete   *)
(*                handlers and the two background tasks, with one          *)
(*                observer connected;                                      *)
(*   SpecChannel  the notification channel: websockets connect, break and  *)
(*                disconnect while the tasks of one annotation broadcast;  *)
(*   SpecCatalog  the requests about videos and their annotations, with    *)
(*                their checks, answers and files;                         *)
(*   SpecProjects the requests about projects and the videos in them;      *)
(*   SpecFields   the fields of one annotation under updates and feedback, *)
(*                while time passes;                                       *)
(*   SpecFaults   the tasks with a store whose writes may raise, and       *)
(*                SpecFaultsFair, the same with every task scheduled;      *)
(*   SpecReuse    creations after deletions, where SQLite gives the id of  *)
(*                a deleted row to the next one.                           *)
(* Text that the code parses or formats (the Range header, Content-Range,  *)
(* Content-Length) is a sequence of one-character strings.                 *)
(***************************************************************************)
EXTENDS Integers, Sequences, FiniteSets, TLC

(***************************************************************************)
(* Bounds of the model.                                                    *)
(***************************************************************************)
\* Small files have 0..MaxSize bytes.
MaxSize == 2
\* Numbers 0..MaxNum appear as range bounds in the Range header.
MaxNum == 3
\* create_annotation requests in a run.
MaxCreates == 1
\* PUT /api/annotations requests in a run.
MaxUpdates == 1
\* Websockets that connect in a run.
MaxSockets == 2
\* Videos created (uploaded or registered) in a run of the catalog.
MaxVideos == 1
\* Readings of the clock that differ in a run of the catalog.
MaxClock == 1
\* Projects created in a run of the catalog.
MaxProjects == 1

(***************************************************************************)
(* Program constants.                                                      *)
(***************************************************************************)
\* config.py:64: MAX_VIDEO_SIZE_MB; MAX_UPLOAD_SIZE is this many times
\* 1024 * 1024 bytes (config.py:67).
MaxVideoSizeMb == 5000

\* main.py:284  read_size = min(8192, remaining)
ChunkBytes == 8192

\* A file of two full chunks and one byte: streaming it takes three reads.
BigSize == 2 * ChunkBytes + 1

(***************************************************************************)
(* Text: str(int), int(str), str.replace, str.split.                       *)
(***************************************************************************)
Digits == <<"0", "1", "2", "3", "4", "5", "6", "7", "8", "9">>

DigitSet == {Digits[i] : i \in 1..10}

RECURSIVE NatStr(_)
NatStr(n) ==
    IF n < 10 THEN <<Digits[n + 1]>>
    ELSE NatStr(n \div 10) \o <<Digits[(n % 10) + 1]>>

\* Python str(n) of an int, as the f-strings of the handler format it.
Str(n) == IF n < 0 THEN <<"-">> \o NatStr(0 - n) ELSE NatStr(n)

DigitVal(c) == (CHOOSE i \in 1..10 : Digits[i] = c) - 1

\* Python int(tok) accepts tok iff it is a non-empty run of decimal digits
\* (over the alphabet of the headers below: digits, letters, "=" and "-";
\* a "-" never reaches int() because the header is split on it).
IntOk(tok) == Len(tok) > 0 /\ \A i \in 1..Len(tok) : tok[i] \in DigitSet

RECURSIVE PyInt(_)
PyInt(tok) ==
    IF Len(tok) = 0 THEN 0
    ELSE 10 * PyInt(SubSeq(tok, 1, Len(tok) - 1)) + DigitVal(tok[Len(tok)])

BytesEq == <<"b", "y", "t", "e", "s", "=">>

\* range_header.replace("bytes=", ""): every occurrence is removed, left to right.
RECURSIVE ReplaceBytesEq(_)
ReplaceBytesEq(s) ==
    IF Len(s) < Len(BytesEq) THEN s
    ELSE IF SubSeq(s, 1, Len(BytesEq)) = BytesEq
         THEN ReplaceBytesEq(SubSeq(s, Len(BytesEq) + 1, Len(s)))
         ELSE <<s[1]>> \o ReplaceBytesEq(Tail(s))

\* s.split("-"): the pieces between the dashes; no dash gives <<s>>.
RECURSIVE SplitDash(_)
SplitDash(s) ==
    IF \A i \in 1..Len(s) : s[i] # "-" THEN <<s>>
    ELSE LET i == CHOOSE k \in 1..Len(s) :
                      s[k] = "-" /\ \A j \in 1..(k - 1) : s[j] # "-"
         IN <<SubSeq(s, 1, i - 1)>> \o SplitDash(SubSeq(s, i + 1, Len(s)))

(***************************************************************************)
(* get_video_file: parsing, validation, headers.                           *)
(***************************************************************************)
\* main.py:268
RangeMatch(range_header) == SplitDash(ReplaceBytesEq(range_header))

\* int() raises ValueError on a bound that is present and not a number; the
\* handler's "except Exception" turns it into a 500.
ParseRaises(range_match) ==
    \/ range_match[1] # <<>> /\ ~IntOk(range_match[1])
    \/ Len(range_match) > 1 /\ range_match[2] # <<>> /\ ~IntOk(range_match[2])

\* main.py:269
ParseStart(range_match) ==
    IF range_match[1] # <<>> THEN PyInt(range_match[1]) ELSE 0

\* Mutant of ParseEnd: an omitted end defaults to the size, not to size-1.
ParseEnd_DefaultSize(range_match, file_size) ==
    IF Len(range_match) > 1 /\ range_match[2] # <<>>
    THEN PyInt(range_match[2])
    ELSE file_size

\* main.py:270
ParseEnd(range_match, file_size) ==
    IF Len(range_match) > 1 /\ range_match[2] # <<>>
    THEN PyInt(range_match[2])
    ELSE file_size - 1

\* Mutant of RangeNotSatisfiable: ">" for ">=".
RangeNotSatisfiable_Gt(start, end, file_size) ==
    start > file_size \/ end > file_size

\* main.py:273
RangeNotSatisfiable(start, end, file_size) ==
    start >= file_size \/ end >= file_size

\* main.py:276
ChunkSize(start, end) == end - start + 1

\* Mutant of ReadSize: what remains of the slice is read in one call.
ReadSize_Whole(remaining) == remaining

\* main.py:284
ReadSize(remaining) == IF ChunkBytes < remaining THEN ChunkBytes ELSE remaining

\* Mutant of SeekPos: the seek is forgotten.
SeekPos_NoSeek(start) == 0

\* main.py:281  f.seek(start)
SeekPos(start) == start

\* f.read(n) at position pos of a regular file: the bytes up to n, fewer at
\* the end of the file, none at or past it.
FileRead(bytes, pos, n) ==
    IF pos >= Len(bytes) THEN <<>>
    ELSE SubSeq(bytes, pos + 1,
                IF pos + n < Len(bytes) THEN pos + n ELSE Len(bytes))

NoText == <<>>

\* Mutant of ContentRange: the total is given as the last offset.
ContentRange_LastOffset(start, end, file_size) ==
    <<"b", "y", "t", "e", "s", " ">> \o Str(start) \o <<"-">> \o Str(end)
        \o <<"/">> \o Str(file_size - 1)

\* main.py:292  f"bytes {start}-{end}/{file_size}"
ContentRange(start, end, file_size) ==
    <<"b", "y", "t", "e", "s", " ">> \o Str(start) \o <<"-">> \o Str(end)
        \o <<"/">> \o Str(file_size)

\* main.py:291-296
RangeHeaders(start, end, file_size, mime_type) ==
    [ContentRange |-> ContentRange(start, end, file_size),
     AcceptRanges |-> "bytes",
     ContentLength |-> Str(ChunkSize(start, end)),
     ContentType |-> IF mime_type # "" THEN mime_type ELSE "video/mp4"]

\* main.py:305-309: FileResponse is given the media type and Accept-Ranges.
FullHeaders(mime_type) ==
    [ContentRange |-> NoText,
     AcceptRanges |-> "bytes",
     ContentLength |-> NoText,
     ContentType |-> IF mime_type # "" THEN mime_type ELSE "video/mp4"]

\* An HTTPException carries a status and a detail, none of these headers.
ErrorHeaders ==
    [ContentRange |-> NoText, AcceptRanges |-> "", ContentLength |-> NoText,
     ContentType |-> ""]

(***************************************************************************)
(* State of one request to GET /api/videos/{video_id}/file.                *)
(***************************************************************************)
VARIABLES
    video_found,     \* db.get_video found the row
    mime_type,       \* video.mime_type, "" for None
    disk,            \* [exists, bytes]: the file at video.filepath
    range_header,    \* request.headers.get("range"); <<>> when absent
    rpc,             \* "idle", "request", "streaming", "done"
    resp,            \* [status, headers] of the response
    body,            \* the bytes sent so far
    fpos,            \* iter_file: position of f
    remaining,       \* iter_file: remaining
    bytes_read       \* number of bytes read from the file for this request

rvars == <<video_found, mime_type, disk, range_header, rpc, resp, body, fpos,
           remaining, bytes_read>>

VARIABLES
    annotations,         \* the annotations table: id -> row, NoRow when absent
    audio_files,         \* the recordings on disk, by creation number
    n_created,           \* create_annotation requests served
    n_updates,           \* PUT /api/annotations requests served
    responses,           \* the response of each create_annotation request
    ttask,               \* process_transcription task of each creation
    etask,               \* process_extended_transcript task of each creation
    active_connections,  \* ConnectionManager.active_connections (a list)
    ws                   \* each websocket: "new", "open", "broken", "closed"

pvars == <<annotations, audio_files, n_created, n_updates, responses, ttask,
           etask, active_connections, ws>>

\* The catalog: the projects and videos tables, the video files on disk, the
\* clock and the answer to the last request.
VARIABLES
    projects,        \* the projects table: id -> row
    videos,          \* the videos table: id -> row
    video_files,     \* the paths under VIDEOS_DIR and the local paths on disk
    n_videos,        \* videos files written (upload_video requests that wrote)
    exports,         \* the files under EXPORTS_DIR: [video, time]
    clock,           \* datetime.utcnow()
    reply            \* [op, id, status, ...] of the last request of the catalog

cvars == <<projects, videos, video_files, n_videos, exports, clock, reply>>

vars == <<rvars, pvars, cvars>>

(***************************************************************************)
(* Inputs of the range requests.                                           *)
(***************************************************************************)
ByteValues == {0, 255}

\* Position-dependent content, so that a shifted slice differs.
BigFile == [i \in 1..BigSize |-> (i * 7) % 251]

FileContents ==
    UNION {[1..n -> ByteValues] : n \in 0..MaxSize} \cup {BigFile}

BigNums == {ChunkBytes - 1, ChunkBytes, BigSize - 1, BigSize}

RangeNums == (0..MaxNum) \cup BigNums

\* A bound of the header: omitted, a number, a number with a leading zero,
\* or text that is no number.
BoundTokens ==
    {<<>>} \cup {Str(n) : n \in RangeNums} \cup {<<"0">> \o Str(1), <<"a">>}

\* bytes=<start>-<end>, as a client writes it.
RangeHeader(t1, t2) == BytesEq \o t1 \o <<"-">> \o t2

OddHeaders ==
    {BytesEq \o Str(1),
     Str(0) \o <<"-">> \o Str(1),
     BytesEq \o Str(0) \o <<"-">> \o Str(1) \o <<"-">> \o Str(2),
     BytesEq \o <<"-", "-">> \o Str(1)}

NoHeader == <<>>

RangeHeaderInputs ==
    {NoHeader} \cup {RangeHeader(t1, t2) : t1, t2 \in BoundTokens} \cup OddHeaders

NoResponse == [status |-> 0, headers |-> ErrorHeaders]

HttpError(code) == [status |-> code, headers |-> ErrorHeaders]

InitRange ==
    /\ video_found \in BOOLEAN
    /\ mime_type \in {"", "video/webm"}
    /\ disk \in [exists : BOOLEAN, bytes : FileContents]
    /\ ~disk.exists => disk.bytes = <<>>
    /\ ~video_found => (mime_type = "" /\ ~disk.exists)
    /\ range_header \in RangeHeaderInputs
    /\ rpc = "request"
    /\ resp = NoResponse
    /\ body = <<>>
    /\ fpos = 0
    /\ remaining = 0
    /\ bytes_read = 0

(***************************************************************************)
(* get_video_file (main.py:245-315), up to the return of the response.     *)
(***************************************************************************)
GetVideoFile ==
    /\ UNCHANGED <<pvars, cvars>>
    /\ rpc = "request"
    /\ UNCHANGED <<video_found, mime_type, disk, range_header>>
    /\ LET file_size == Len(disk.bytes)
           range_match == RangeMatch(range_header)
           start == ParseStart(range_match)
           end == ParseEnd(range_match, file_size)
       IN IF ~video_found \/ ~disk.exists
          THEN /\ resp' = HttpError(404)
               /\ rpc' = "done"
               /\ UNCHANGED <<body, fpos, remaining, bytes_read>>
          ELSE IF range_header # <<>>
          THEN IF ParseRaises(range_match)
               THEN /\ resp' = HttpError(500)
                    /\ rpc' = "done"
                    /\ UNCHANGED <<body, fpos, remaining, bytes_read>>
               ELSE IF RangeNotSatisfiable(start, end, file_size)
               THEN /\ resp' = HttpError(416)
                    /\ rpc' = "done"
                    /\ UNCHANGED <<body, fpos, remaining, bytes_read>>
               ELSE /\ resp' = [status |-> 206,
                                headers |-> RangeHeaders(start, end, file_size,
                                                         mime_type)]
                    /\ rpc' = "streaming"
                    /\ fpos' = SeekPos(start)
                    /\ remaining' = ChunkSize(start, end)
                    /\ UNCHANGED <<body, bytes_read>>
          ELSE /\ resp' = [status |-> 200, headers |-> FullHeaders(mime_type)]
               /\ body' = disk.bytes
               /\ bytes_read' = Len(disk.bytes)
               /\ rpc' = "done"
               /\ UNCHANGED <<fpos, remaining>>

(***************************************************************************)
(* iter_file (main.py:279-289): one turn of the while loop per step.       *)
(***************************************************************************)
IterFile ==
    /\ UNCHANGED <<pvars, cvars>>
    /\ rpc = "streaming"
    /\ UNCHANGED <<video_found, mime_type, disk, range_header, resp>>
    /\ IF remaining > 0
       THEN LET data == FileRead(disk.bytes, fpos, ReadSize(remaining))
            IN IF data = <<>>
               THEN /\ rpc' = "done"
                    /\ UNCHANGED <<body, fpos, remaining, bytes_read>>
               ELSE /\ remaining' = remaining - Len(data)
                    /\ fpos' = fpos + Len(data)
                    /\ body' = body \o data
                    /\ bytes_read' = bytes_read + Len(data)
                    /\ rpc' = "streaming"
       ELSE /\ rpc' = "done"
            /\ UNCHANGED <<body, fpos, remaining, bytes_read>>

\* The sizes a file may be cut to while it is streamed.
ShrunkSizes == {0, 1, ChunkBytes}

\* The file is cut to n bytes by its owner after get_video_file measured it
\* (main.py:261) and while iter_file reads it: f.read answers fewer bytes,
\* or none, at the new end.
FileTruncated(n) ==
    /\ UNCHANGED <<pvars, cvars>>
    /\ rpc = "streaming"
    /\ n < Len(disk.bytes)
    /\ disk' = [disk EXCEPT !.bytes = SubSeq(@, 1, n)]
    /\ UNCHANGED <<video_found, mime_type, range_header, rpc, resp, body,
                   fpos, remaining, bytes_read>>

(***************************************************************************)
(* The annotation pipeline: the store, the websocket registry, the two     *)
(* background tasks of every created annotation.                           *)
(***************************************************************************)
Creations == 1..MaxCreates

Sockets == 1..MaxSockets

\* models.py:59, 61: the values the status columns are documented to take.
Statuses == {"pending", "processing", "completed", "failed"}

NoRow == [exists |-> FALSE]

\* A nullable column that holds no text or number: None; one that holds x.
NoneOf(d) == [null |-> TRUE, v |-> d]

Some(x) == [null |-> FALSE, v |-> x]

\* models.py:48-65 with the column defaults; audio is the recording's file
\* (annotation_<uuid>.wav, one per creation). None is "None". The video and
\* the offsets are those of the request; created_at and updated_at are the
\* clock at the insert.
NewRow(k) ==
    [exists |-> TRUE,
     video_id |-> 1,
     start_time |-> 0,
     end_time |-> 1,
     audio |-> k,
     transcription |-> "None",
     transcription_status |-> "pending",
     extended_transcript |-> "None",
     extended_transcript_status |-> "pending",
     feedback |-> NoneOf(0),
     feedback_choices |-> NoneOf(<<>>),
     created_at |-> clock,
     updated_at |-> clock]

RowFields ==
    {"transcription", "transcription_status", "extended_transcript",
     "extended_transcript_status", "feedback", "feedback_choices"}

\* The primary key is INTEGER PRIMARY KEY of SQLite (config.py:26,
\* models.py:52): one more than the largest id in the table, 1 when empty.
NewId(rows) ==
    IF \A i \in DOMAIN rows : ~rows[i].exists THEN 1
    ELSE 1 + CHOOSE m \in DOMAIN rows :
                 rows[m].exists /\ \A i \in DOMAIN rows : rows[i].exists => i <= m

\* Mutant of ApplyUpdate: the dump is taken without exclude_unset, and every
\* field the update omits is written as None.
ApplyUpdate_Unset(row, upd) ==
    [f \in DOMAIN row |->
        IF f \in DOMAIN upd THEN upd[f]
        ELSE IF f \in {"feedback"} THEN NoneOf(0)
        ELSE IF f \in {"feedback_choices"} THEN NoneOf(<<>>)
        ELSE IF f \in RowFields THEN "None"
        ELSE row[f]]

\* database.py:133-135: model_dump(exclude_unset=True), then setattr of every
\* supplied field. An update is a record of the supplied fields.
ApplyUpdate(row, upd) ==
    [f \in DOMAIN row |-> IF f \in DOMAIN upd THEN upd[f] ELSE row[f]]

\* Mutant of DbUpdate: the row is written as a new one, created now.
DbUpdate_Reinsert(rows, id, upd) ==
    IF id \in DOMAIN rows /\ rows[id].exists
    THEN [rows EXCEPT ![id] = [ApplyUpdate(@, upd) EXCEPT !.updated_at = clock,
                                                          !.created_at = clock]]
    ELSE rows

\* database.py:125-139: db.update_annotation; no row, no change. The row is
\* stamped with the clock whatever the update holds (database.py:136).
DbUpdate(rows, id, upd) ==
    IF id \in DOMAIN rows /\ rows[id].exists
    THEN [rows EXCEPT ![id] = [ApplyUpdate(@, upd) EXCEPT !.updated_at = clock]]
    ELSE rows

RowExists(rows, id) == id \in DOMAIN rows /\ rows[id].exists

\* The AnnotationUpdate of each write of the tasks.
\* main.py:721
TranscriptionProcessing == [transcription_status |-> "processing"]

\* main.py:741-744
TranscriptionCompleted(text) ==
    [transcription |-> text, transcription_status |-> "completed"]

\* Mutant of TranscriptionFailed: the except branch leaves the status as it
\* was set at the start.
TranscriptionFailed_StillProcessing == [transcription_status |-> "processing"]

\* main.py:769
TranscriptionFailed == [transcription_status |-> "failed"]

\* main.py:791
ExtendedProcessing == [extended_transcript_status |-> "processing"]

\* Mutant of ExtendedCompleted: the text is stored, the status is not.
ExtendedCompleted_TextOnly(text) == [extended_transcript |-> text]

\* main.py:812-815
ExtendedCompleted(text) ==
    [extended_transcript |-> text, extended_transcript_status |-> "completed"]

\* Mutant of ExtendedFailed: the except branch marks the track completed.
ExtendedFailed_Completed == [extended_transcript_status |-> "completed"]

\* main.py:838
ExtendedFailed == [extended_transcript_status |-> "failed"]

\* The dict of each broadcast of the tasks; payload is the status, the text
\* or str(e).
\* main.py:725-729
TranscriptionStatusMsg(id) ==
    [type |-> "transcription_status", annotation_id |-> id,
     payload |-> "processing"]

\* main.py:750-754
TranscriptionCompleteMsg(id, text) ==
    [type |-> "transcription_complete", annotation_id |-> id, payload |-> text]

\* main.py:772-776
TranscriptionErrorMsg(id, e) ==
    [type |-> "transcription_error", annotation_id |-> id, payload |-> e]

\* main.py:795-799
ExtendedStatusMsg(id) ==
    [type |-> "extended_transcript_status", annotation_id |-> id,
     payload |-> "processing"]

\* main.py:821-825
ExtendedCompleteMsg(id, text) ==
    [type |-> "extended_transcript_complete", annotation_id |-> id,
     payload |-> text]

\* main.py:841-845
ExtendedErrorMsg(id, e) ==
    [type |-> "extended_transcript_error", annotation_id |-> id, payload |-> e]

NoMsg == [type |-> "none", annotation_id |-> 0, payload |-> "None"]

\* A task: its place (pc), its arguments (annotation_id, audio or text), the
\* exception it caught (error), and of the broadcast it is in: the dict
\* (msg), the list iterator's index (bi), and, as history, the registry when
\* the loop began (b_reg), the sockets the loop sent to (b_sent) and those
\* whose send raised (b_failed). written/hit record its last
\* db.update_annotation: the status passed and whether the row was there.
NoTask ==
    [pc |-> "none", annotation_id |-> 0, text |-> "None", error |-> "none",
     msg |-> NoMsg, bi |-> 0, b_open |-> FALSE, b_reg |-> <<>>,
     b_sent |-> {}, b_failed |-> {}, written |-> "none", hit |-> FALSE]

\* asyncio.create_task(...): the task exists and has not run yet.
SpawnTask(id, text) ==
    [NoTask EXCEPT !.pc = "start", !.annotation_id = id, !.text = text]

\* The task after "await db.update_annotation(...)" with status st, about to
\* call manager.broadcast(m) from place pc.
AfterWrite(t, rows, st, pc, m) ==
    [t EXCEPT !.pc = pc, !.msg = m, !.bi = 0, !.b_open = FALSE,
              !.b_reg = <<>>, !.b_sent = {}, !.b_failed = {},
              !.written = st, !.hit = RowExists(rows, t.annotation_id)]

BroadcastPcs == {"bcast_status", "bcast_complete", "bcast_error"}

\* Mutant of NextIndexAfterSend: no try/except around the send, a failure
\* ends the loop.
NextIndexAfterSend_Abort(bi, ok, n) == IF ok THEN bi + 1 ELSE n

\* main.py:71-75: the "for" of broadcast goes on to the next index whether
\* send_json returned or raised (ok); n is the length of the list.
NextIndexAfterSend(bi, ok, n) == bi + 1

\* main.py:69-75: one turn of the loop of broadcast: the list iterator
\* yields active_connections[bi] (counted from 0) and send_json is awaited.
BroadcastTurn(t, conns, sockets) ==
    LET c == conns[t.bi + 1]
        ok == sockets[c] = "open"
    IN [t EXCEPT !.bi = NextIndexAfterSend(t.bi, ok, Len(conns)),
                 !.b_open = TRUE,
                 !.b_reg = IF t.b_open THEN t.b_reg ELSE conns,
                 !.b_sent = @ \cup {c},
                 !.b_failed = IF ok THEN @ ELSE @ \cup {c}]

\* The list iterator is exhausted: broadcast returns.
BroadcastOver(t, conns) == t.bi >= Len(conns)

\* The task after broadcast returned, at place pc.
AfterBroadcast(t, pc) ==
    [t EXCEPT !.pc = pc, !.msg = NoMsg, !.bi = 0, !.b_open = FALSE,
              !.b_reg = <<>>, !.b_sent = {}, !.b_failed = {}]

(***************************************************************************)
(* Inputs of the pipeline.                                                 *)
(***************************************************************************)
\* transcription.py:82: the recognised text, stripped; it may be empty.
TranscribedTexts == {"", "spoken"}

\* transcription.py:44-50, 74-77: what transcribe_audio raises.
TranscribeErrors == {"TranscriptionApiError"}

\* llm_service.py:106-110: a non-empty text, or None.
ExtendedTexts == {"narrative"}

\* What a client may put in a status field of the PUT body: AnnotationUpdate
\* (models.py:138, 140) takes any Optional[str].
StatusInputs == Statuses \cup {"bogus", "None"}

\* The PUT bodies of the model: nothing set, or one field set.
UpdateInputs ==
    {[transcription |-> "edited"]}
        \cup {[transcription_status |-> v] : v \in StatusInputs}
        \cup {[extended_transcript_status |-> v] : v \in StatusInputs}

\* models.py:145-163: AnnotationResponse of the created row.
CreatedResponse(id, row) == [status |-> 200, id |-> id, annotation |-> row]

NoCreateResponse == [status |-> 0, id |-> 0, annotation |-> NoRow]

PipelineInit ==
    /\ annotations = [i \in Creations |-> NoRow]
    /\ audio_files = {}
    /\ n_created = 0
    /\ n_updates = 0
    /\ responses = [k \in Creations |-> NoCreateResponse]
    /\ ttask = [k \in Creations |-> NoTask]
    /\ etask = [k \in Creations |-> NoTask]
    /\ active_connections = <<>>
    /\ ws = [c \in Sockets |-> "new"]

\* No request for a video file is in progress.
RangeQuiet ==
    /\ video_found = FALSE
    /\ mime_type = ""
    /\ disk = [exists |-> FALSE, bytes |-> <<>>]
    /\ range_header = NoHeader
    /\ rpc = "idle"
    /\ resp = NoResponse
    /\ body = <<>>
    /\ fpos = 0
    /\ remaining = 0
    /\ bytes_read = 0

\* One observer is connected when the first annotation is created.
OneObserver ==
    /\ annotations = [i \in Creations |-> NoRow]
    /\ audio_files = {}
    /\ n_created = 0
    /\ n_updates = 0
    /\ responses = [k \in Creations |-> NoCreateResponse]
    /\ ttask = [k \in Creations |-> NoTask]
    /\ etask = [k \in Creations |-> NoTask]
    /\ active_connections = <<1>>
    /\ ws = [c \in Sockets |-> IF c = 1 THEN "open" ELSE "new"]

\* One annotation has just been created and nobody is connected yet.
OneAnnotation ==
    /\ annotations = [i \in Creations |-> IF i = 1 THEN NewRow(1) ELSE NoRow]
    /\ audio_files = {1}
    /\ n_created = 1
    /\ n_updates = 0
    /\ responses = [k \in Creations |->
                       IF k = 1 THEN CreatedResponse(1, NewRow(1))
                       ELSE NoCreateResponse]
    /\ ttask = [k \in Creations |->
                   IF k = 1 THEN SpawnTask(1, "None") ELSE NoTask]
    /\ etask = [k \in Creations |-> NoTask]
    /\ active_connections = <<>>
    /\ ws = [c \in Sockets |-> "new"]

(***************************************************************************)
(* The websocket registry (main.py:56-75, 108-117).                        *)
(***************************************************************************)
\* main.py:60-62, 110: accept, then append.
Connect(c) ==
    /\ UNCHANGED <<rvars, cvars>>
    /\ ws[c] = "new"
    /\ ws' = [ws EXCEPT ![c] = "open"]
    /\ active_connections' = Append(active_connections, c)
    /\ UNCHANGED <<annotations, audio_files, n_created, n_updates, responses,
                   ttask, etask>>

\* The peer goes away; the endpoint has not yet seen WebSocketDisconnect, and
\* a send_json to the socket raises.
PeerGone(c) ==
    /\ UNCHANGED <<rvars, cvars>>
    /\ ws[c] = "open"
    /\ ws' = [ws EXCEPT ![c] = "broken"]
    /\ UNCHANGED <<annotations, audio_files, n_created, n_updates, responses,
                   ttask, etask, active_connections>>

\* list.remove(x): the first occurrence is removed.
ListRemove(list, x) ==
    LET i == CHOOSE k \in 1..Len(list) :
                 list[k] = x /\ \A j \in 1..(k - 1) : list[j] # x
    IN SubSeq(list, 1, i - 1) \o SubSeq(list, i + 1, Len(list))

\* main.py:116-117, 65-66: receive_text raises WebSocketDisconnect.
Disconnect(c) ==
    /\ UNCHANGED <<rvars, cvars>>
    /\ ws[c] = "broken"
    /\ ws' = [ws EXCEPT ![c] = "closed"]
    /\ active_connections' = ListRemove(active_connections, c)
    /\ UNCHANGED <<annotations, audio_files, n_created, n_updates, responses,
                   ttask, etask>>

\* main.py:111-117: receive_text raises something other than
\* WebSocketDisconnect (a binary frame has no "text" key): the endpoint ends,
\* the socket is closed and manager.disconnect is not called.
ReceiveFails(c) ==
    /\ UNCHANGED <<rvars, cvars>>
    /\ ws[c] = "open"
    /\ ws' = [ws EXCEPT ![c] = "closed"]
    /\ UNCHANGED <<annotations, audio_files, n_created, n_updates, responses,
                   ttask, etask, active_connections>>

(***************************************************************************)
(* The request handlers.                                                   *)
(***************************************************************************)
\* main.py:643-710: the recording is saved, the row is created, the
\* annotation_created event is broadcast, the task is spawned and the row is
\* returned. The video exists and start_time < end_time.
CreateAnnotationAs(k) ==
    /\ UNCHANGED <<rvars, cvars>>
    /\ k = n_created + 1
    /\ LET id == NewId(annotations)
       IN /\ n_created' = k
          /\ audio_files' = audio_files \cup {k}
          /\ annotations' = [annotations EXCEPT ![id] = NewRow(k)]
          /\ ttask' = [ttask EXCEPT ![k] = SpawnTask(id, "None")]
          /\ responses' = [responses EXCEPT ![k] = CreatedResponse(id, NewRow(k))]
    /\ UNCHANGED <<n_updates, etask, active_connections, ws>>

\* The creations of a run are counted and capped.
CreateAnnotation ==
    /\ n_created < MaxCreates
    /\ CreateAnnotationAs(n_created + 1)

\* main.py:895-913: PUT /api/annotations/{annotation_id}; 404 and no change
\* when the row is absent.
UpdateAnnotation(id, upd) ==
    /\ UNCHANGED <<rvars, cvars>>
    /\ n_updates < MaxUpdates
    /\ n_updates' = n_updates + 1
    /\ annotations' = DbUpdate(annotations, id, upd)
    /\ UNCHANGED <<audio_files, n_created, responses, ttask, etask,
                   active_connections, ws>>

\* main.py:916-948: the recording is removed, then the row, then the
\* annotation_deleted event is broadcast.
DeleteAnnotation(id) ==
    /\ UNCHANGED <<rvars, cvars>>
    /\ RowExists(annotations, id)
    /\ audio_files' = audio_files \ {annotations[id].audio}
    /\ annotations' = [annotations EXCEPT ![id] = NoRow]
    /\ UNCHANGED <<n_created, n_updates, responses, ttask, etask,
                   active_connections, ws>>

(***************************************************************************)
(* The catalog: videos and projects, with the handlers of their requests.  *)
(* A handler is one step.                                                  *)
(***************************************************************************)
VideoIds == 1..MaxVideos

ProjectIds == 1..MaxProjects

\* Identifiers a request may name: those of the table and one beyond.
VideoIdInputs == 1..(MaxVideos + 1)

ProjectIdInputs == 1..(MaxProjects + 1)

AnnotationIdInputs == 1..(MaxCreates + 1)

NoVideo == [exists |-> FALSE]

\* models.py:33: project_id is nullable; None is written 0, which is no id.
NoProjectId == 0

NoProject == [exists |-> FALSE]

\* config.py:63
SupportedVideoFormats == {".mp4", ".webm", ".ogg", ".avi", ".mov"}

\* Path(file.filename).suffix.lower() of the requests of the model.
ExtensionInputs == {".mp4", ".txt"}

\* len(content) of the uploads of the model, as mb * 1024 * 1024 + rest
\* bytes with rest < 1024 * 1024: one byte, the maximum, one byte more.
UploadSizes ==
    {[mb |-> 0, rest |-> 1],
     [mb |-> MaxVideoSizeMb, rest |-> 0],
     [mb |-> MaxVideoSizeMb, rest |-> 1]}

\* main.py:164: len(content) > MAX_UPLOAD_SIZE
TooLarge(size) ==
    size.mb > MaxVideoSizeMb \/ (size.mb = MaxVideoSizeMb /\ size.rest > 0)

\* main.py:157-158: VIDEOS_DIR / "<uuid>_<filename>", one per upload.
UploadPath(k) == [dir |-> "videos", n |-> k]

\* A path outside the directories of the program.
LocalPath(n) == [dir |-> "local", n |-> n]

\* The local paths of the model: a video file, a path with nothing at it, a
\* directory and a text file.
LocalInputs ==
    {[n |-> 1, kind |-> "file", ext |-> ".mp4"],
     [n |-> 2, kind |-> "missing", ext |-> ".mp4"],
     [n |-> 3, kind |-> "dir", ext |-> ""],
     [n |-> 4, kind |-> "file", ext |-> ".txt"]}

\* The local files on disk; the program did not create them.
LocalFiles == {LocalPath(l.n) : l \in {x \in LocalInputs : x.kind = "file"}}

\* models.py:29-45, main.py:174-181: the row of an uploaded video; is_local
\* takes the column default 0 (migrate_add_local_columns.py:45).
UploadedVideo(path) ==
    [exists |-> TRUE, project_id |-> NoProjectId, filepath |-> path,
     is_local |-> 0]

\* main.py:497-504: the row of a registered local video.
LocalVideo(path) ==
    [exists |-> TRUE, project_id |-> NoProjectId, filepath |-> path,
     is_local |-> 1]

\* main.py:364: video.is_local. The column is read by delete_video and set
\* by register_local_video; models.Video of the source does not declare it.
VideoIsLocal(video) == video.is_local

\* The answer to a request: the handler, the identifier it was addressed to,
\* the status, whether the handler broadcast an event, and the arguments a
\* claim needs.
Reply(op, id, status) ==
    [op |-> op, id |-> id, status |-> status, broadcast |-> FALSE,
     args |-> "none"]

NoReply == Reply("none", 0, 0)

\* An answer with the arguments of its request.
ReplyWith(op, id, status, args) == [Reply(op, id, status) EXCEPT !.args = args]

\* database.py:91-97, 108-123: the annotations of a video.
AnnotationsOf(rows, v) ==
    {a \in DOMAIN rows : rows[a].exists /\ rows[a].video_id = v}

\* No request of the catalog has been served.
CatalogQuiet ==
    /\ projects = [p \in ProjectIds |-> NoProject]
    /\ videos = [v \in VideoIds |-> NoVideo]
    /\ video_files = LocalFiles
    /\ n_videos = 0
    /\ exports = {}
    /\ clock = 0
    /\ reply = NoReply

\* The pipeline is left alone by the requests about videos and projects.
PipelineSame ==
    UNCHANGED <<annotations, audio_files, n_created, n_updates, responses,
                ttask, etask, active_connections, ws>>

\* Time passes: utcnow() answers a later time from now on.
Tick ==
    /\ clock < MaxClock
    /\ clock' = clock + 1
    /\ reply' = NoReply
    /\ UNCHANGED <<exports, projects, videos, video_files, n_videos>>
    /\ UNCHANGED <<rvars, pvars>>

\* main.py:141-195: upload_video. The file is opened for writing, and so
\* created, before the length of the content is looked at.
UploadVideo(ext, size) ==
    /\ UNCHANGED <<rvars, pvars>>
    /\ UNCHANGED <<exports, projects, clock>>
    /\ LET upload == [ext |-> ext, size |-> size] IN
       IF ext \notin SupportedVideoFormats
       THEN /\ reply' = ReplyWith("upload_video", 0, 400, upload)
            /\ UNCHANGED <<videos, video_files, n_videos>>
       ELSE /\ n_videos < MaxVideos
            /\ n_videos' = n_videos + 1
            /\ video_files' = video_files \cup {UploadPath(n_videos + 1)}
            /\ IF TooLarge(size)
               THEN /\ reply' = ReplyWith("upload_video", 0, 400, upload)
                    /\ UNCHANGED videos
               ELSE /\ videos' = [videos EXCEPT ![NewId(videos)] =
                                     UploadedVideo(UploadPath(n_videos + 1))]
                    /\ reply' = ReplyWith("upload_video", NewId(videos), 200, upload)

\* main.py:446-518: register_local_video. The filepath column is unique
\* (models.py:34): a second row for one path is refused by the store.
RegisterLocalVideo(l) ==
    /\ UNCHANGED <<rvars, pvars>>
    /\ UNCHANGED <<exports, projects, clock, video_files>>
    /\ IF LocalPath(l.n) \notin video_files /\ l.kind # "dir"
       THEN /\ reply' = Reply("register_local_video", 0, 404)
            /\ UNCHANGED <<videos, n_videos>>
       ELSE IF l.kind = "dir" \/ l.ext \notin SupportedVideoFormats
       THEN /\ reply' = Reply("register_local_video", 0, 400)
            /\ UNCHANGED <<videos, n_videos>>
       ELSE IF \E v \in VideoIds :
                   videos[v].exists /\ videos[v].filepath = LocalPath(l.n)
       THEN /\ reply' = Reply("register_local_video", 0, 500)
            /\ UNCHANGED <<videos, n_videos>>
       ELSE /\ n_videos < MaxVideos
            /\ n_videos' = n_videos + 1
            /\ videos' = [videos EXCEPT ![NewId(videos)] =
                             LocalVideo(LocalPath(l.n))]
            /\ reply' = Reply("register_local_video", NewId(videos), 200)

\* main.py:222-242: get_video.
GetVideo(v) ==
    /\ UNCHANGED <<rvars, pvars>>
    /\ UNCHANGED <<exports, projects, videos, video_files, n_videos, clock>>
    /\ reply' = Reply("get_video", v, IF RowExists(videos, v) THEN 200 ELSE 404)

\* The bodies of PUT /api/videos/{video_id}: the project of the video.
VideoUpdateInputs ==
    {[project_id |-> p] : p \in ProjectIdInputs \cup {NoProjectId}}

\* main.py:318-349: update_video; any project_id is stored.
UpdateVideo(v, video_update) ==
    /\ UNCHANGED <<rvars, pvars>>
    /\ UNCHANGED <<exports, projects, video_files, n_videos, clock>>
    /\ IF ~RowExists(videos, v)
       THEN /\ reply' = Reply("update_video", v, 404)
            /\ UNCHANGED videos
       ELSE /\ videos' = [videos EXCEPT ![v].project_id = video_update.project_id]
            /\ reply' = Reply("update_video", v, 200)

\* Mutant of RemovesVideoFile: the file of any video is removed.
RemovesVideoFile_Always(video) == video.exists

\* main.py:363-365: the file is removed only if the video was uploaded.
RemovesVideoFile(video) == VideoIsLocal(video) = 0

\* main.py:352-382, database.py:79-86, models.py:45: delete_video. The file
\* of an uploaded video and the recordings of the annotations are removed,
\* then the row, and with it (cascade) the rows of its annotations.
\* The answer keeps the path of the video and the annotations the handler
\* went through.
DeleteVideo(v) ==
    /\ UNCHANGED rvars
    /\ UNCHANGED <<exports, projects, n_videos, clock>>
    /\ IF ~RowExists(videos, v)
       THEN /\ reply' = Reply("delete_video", v, 404)
            /\ UNCHANGED <<videos, video_files, annotations, audio_files>>
       ELSE /\ video_files' =
                  IF RemovesVideoFile(videos[v])
                  THEN video_files \ {videos[v].filepath}
                  ELSE video_files
            /\ audio_files' =
                  audio_files \ {annotations[a].audio :
                                    a \in AnnotationsOf(annotations, v)}
            /\ annotations' =
                  [a \in DOMAIN annotations |->
                      IF a \in AnnotationsOf(annotations, v)
                      THEN NoRow ELSE annotations[a]]
            /\ videos' = [videos EXCEPT ![v] = NoVideo]
            /\ reply' = [Reply("delete_video", v, 200) EXCEPT !.args =
                            [filepath |-> videos[v].filepath,
                             annotations |-> AnnotationsOf(annotations, v)]]
    /\ UNCHANGED <<n_created, n_updates, responses, ttask, etask,
                   active_connections, ws>>

(***************************************************************************)
(* Projects. database.py of the source holds none of the project           *)
(* functions main.py calls; they are modelled from the specification.      *)
(***************************************************************************)
NewProject == [exists |-> TRUE, name |-> "study"]

\* db.create_project
DbCreateProject(rows) == [rows EXCEPT ![NewId(rows)] = NewProject]

\* db.get_project: the row or None.
DbGetProject(rows, p) == RowExists(rows, p)

\* db.update_project: the supplied name is stored.
DbUpdateProject(rows, p, project_update) ==
    [rows EXCEPT ![p].name = project_update.name]

\* Mutant of DbDetachVideos: the videos of the project go with it.
DbDetachVideos_Cascade(vrows, p) ==
    [v \in DOMAIN vrows |->
        IF vrows[v].exists /\ vrows[v].project_id = p
        THEN NoVideo ELSE vrows[v]]

\* db.delete_project, on the videos: every video of the project is detached
\* (project_id becomes None); none is deleted.
DbDetachVideos(vrows, p) ==
    [v \in DOMAIN vrows |->
        IF vrows[v].exists /\ vrows[v].project_id = p
        THEN [vrows[v] EXCEPT !.project_id = NoProjectId] ELSE vrows[v]]

\* db.delete_project, on the projects.
DbDeleteProject(rows, p) == [rows EXCEPT ![p] = NoProject]

CatalogFilesSame == UNCHANGED <<video_files, n_videos, exports, clock>>

\* main.py:526-538: create_project.
CreateProject ==
    /\ UNCHANGED <<rvars, pvars>>
    /\ CatalogFilesSame
    /\ NewId(projects) \in ProjectIds
    /\ projects' = DbCreateProject(projects)
    /\ reply' = Reply("create_project", NewId(projects), 200)
    /\ UNCHANGED videos

\* main.py:554-569: get_project.
GetProject(p) ==
    /\ UNCHANGED <<rvars, pvars>>
    /\ CatalogFilesSame
    /\ reply' = Reply("get_project", p,
                      IF DbGetProject(projects, p) THEN 200 ELSE 404)
    /\ UNCHANGED <<projects, videos>>

\* main.py:572-597: get_project_videos.
GetProjectVideos(p) ==
    /\ UNCHANGED <<rvars, pvars>>
    /\ CatalogFilesSame
    /\ reply' = Reply("get_project_videos", p,
                      IF DbGetProject(projects, p) THEN 200 ELSE 404)
    /\ UNCHANGED <<projects, videos>>

\* main.py:600-619: update_project.
UpdateProject(p, project_update) ==
    /\ UNCHANGED <<rvars, pvars>>
    /\ CatalogFilesSame
    /\ IF ~DbGetProject(projects, p)
       THEN /\ reply' = Reply("update_project", p, 404)
            /\ UNCHANGED projects
       ELSE /\ projects' = DbUpdateProject(projects, p, project_update)
            /\ reply' = Reply("update_project", p, 200)
    /\ UNCHANGED videos

\* main.py:622-640: delete_project.
DeleteProject(p) ==
    /\ UNCHANGED <<rvars, pvars>>
    /\ CatalogFilesSame
    /\ IF ~DbGetProject(projects, p)
       THEN /\ reply' = Reply("delete_project", p, 404)
            /\ UNCHANGED <<projects, videos>>
       ELSE /\ videos' = DbDetachVideos(videos, p)
            /\ projects' = DbDeleteProject(projects, p)
            /\ reply' = [Reply("delete_project", p, 200) EXCEPT !.args =
                            {v \in VideoIds : videos[v].exists
                                                /\ videos[v].project_id = p}]

(***************************************************************************)
(* Annotations in the catalog: the requests with their checks and answers. *)
(***************************************************************************)
\* json.dumps of a list of ints: "[1, 0, 1]".
RECURSIVE JsonItems(_)
JsonItems(list) ==
    IF Len(list) = 0 THEN <<>>
    ELSE IF Len(list) = 1 THEN Str(list[1])
    ELSE Str(list[1]) \o <<",", " ">> \o JsonItems(Tail(list))

JsonDumps(list) == <<"[">> \o JsonItems(list) \o <<"]">>

\* The index of the first c in text at or after i; Len(text) + 1 if none.
RECURSIVE Find(_, _, _)
Find(text, c, i) ==
    IF i > Len(text) THEN Len(text) + 1
    ELSE IF text[i] = c THEN i
    ELSE Find(text, c, i + 1)

\* text without the blanks at its ends.
RECURSIVE Strip(_)
Strip(text) ==
    IF Len(text) > 0 /\ text[1] = " " THEN Strip(Tail(text))
    ELSE IF Len(text) > 0 /\ text[Len(text)] = " "
    THEN Strip(SubSeq(text, 1, Len(text) - 1))
    ELSE text

\* The numbers of a comma-separated text.
RECURSIVE JsonNumbers(_)
JsonNumbers(text) ==
    LET comma == Find(text, ",", 1)
        item == Strip(SubSeq(text, 1, comma - 1))
    IN IF Len(Strip(text)) = 0 THEN <<>>
       ELSE <<PyInt(item)>> \o JsonNumbers(SubSeq(text, comma + 1, Len(text)))

\* json.loads of the text of a list of non-negative ints.
JsonLoads(text) == JsonNumbers(SubSeq(text, 2, Len(text) - 1))

\* models.py:193-197: the bodies of submit_feedback of the model; feedback is
\* 0 or 1 and feedback_choices five (or six) numbers.
FeedbackValues == {0, 1}

ChoiceVectors ==
    {<<0, 0, 0, 0, 0>>, <<1, 1, 1, 1, 1>>, <<1, 0, 0, 1, 0>>,
     <<0, 1, 0, 0, 1, 1>>}

\* The offsets of the model, in seconds.
TimeInputs == {-1, 0, 1}

\* models.py:129-130: start_time ge 0, end_time gt 0.
AnnotationCreateValid(start_time, end_time) ==
    start_time >= 0 /\ end_time > 0

\* The bodies of PUT /api/annotations/{id} sent to the catalog: nothing set,
\* one field set, two fields set.
NothingSet == [f \in {} |-> "None"]

CatalogUpdateInputs ==
    {NothingSet,
     [transcription |-> "edited"],
     [transcription_status |-> "completed"],
     [feedback |-> Some(1)],
     [transcription |-> "edited", extended_transcript |-> "rewritten"]}

CatalogVideosSame ==
    UNCHANGED <<projects, videos, video_files, n_videos, exports, clock>>

PipelineTasksSame == UNCHANGED <<n_updates, etask, active_connections, ws>>

\* main.py:643-710: create_annotation with its checks. The recording is
\* written before AnnotationCreate validates the offsets; a validation error
\* is answered by the last except branch.
CreateAnnotationRequest(v, start_time, end_time) ==
    /\ UNCHANGED rvars
    /\ CatalogVideosSame
    /\ PipelineTasksSame
    /\ LET offsets == [start_time |-> start_time, end_time |-> end_time] IN
       IF ~RowExists(videos, v)
       THEN /\ reply' = ReplyWith("create_annotation", v, 404, offsets)
            /\ UNCHANGED <<annotations, audio_files, n_created, responses,
                           ttask>>
       ELSE IF start_time >= end_time
       THEN /\ reply' = ReplyWith("create_annotation", v, 400, offsets)
            /\ UNCHANGED <<annotations, audio_files, n_created, responses,
                           ttask>>
       ELSE /\ n_created < MaxCreates
            /\ n_created' = n_created + 1
            /\ audio_files' = audio_files \cup {n_created + 1}
            /\ IF ~AnnotationCreateValid(start_time, end_time)
               THEN /\ reply' = ReplyWith("create_annotation", v, 500, offsets)
                    /\ UNCHANGED <<annotations, responses, ttask>>
               ELSE LET k == n_created + 1
                        id == NewId(annotations)
                        row == [NewRow(k) EXCEPT !.video_id = v,
                                                 !.start_time = start_time,
                                                 !.end_time = end_time]
                    IN /\ annotations' = [annotations EXCEPT ![id] = row]
                       /\ ttask' = [ttask EXCEPT ![k] = SpawnTask(id, "None")]
                       /\ responses' = [responses EXCEPT ![k] =
                                           CreatedResponse(id, row)]
                       /\ reply' = [ReplyWith("create_annotation", v, 200, offsets)
                                       EXCEPT !.broadcast = TRUE]

\* main.py:875-892, models.py:145-163: the AnnotationResponse of a read.
AnnotationResponse(rows, id) == rows[id]

\* main.py:875-892: get_annotation.
GetAnnotation(id) ==
    /\ UNCHANGED <<rvars, pvars>>
    /\ CatalogVideosSame
    /\ reply' = Reply("get_annotation", id,
                      IF RowExists(annotations, id) THEN 200 ELSE 404)

\* main.py:895-913: update_annotation.
UpdateAnnotationRequest(id, update_data) ==
    /\ UNCHANGED rvars
    /\ CatalogVideosSame
    /\ PipelineTasksSame
    /\ annotations' = DbUpdate(annotations, id, update_data)
    /\ reply' = [Reply("update_annotation", id,
                       IF RowExists(annotations, id) THEN 200 ELSE 404)
                    EXCEPT !.args = update_data]
    /\ UNCHANGED <<audio_files, n_created, responses, ttask>>

\* main.py:916-948: delete_annotation.
DeleteAnnotationRequest(id) ==
    /\ UNCHANGED rvars
    /\ CatalogVideosSame
    /\ PipelineTasksSame
    /\ IF ~RowExists(annotations, id)
       THEN /\ reply' = Reply("delete_annotation", id, 404)
            /\ UNCHANGED <<annotations, audio_files>>
       ELSE /\ audio_files' = audio_files \ {annotations[id].audio}
            /\ annotations' = [annotations EXCEPT ![id] = NoRow]
            /\ reply' = [Reply("delete_annotation", id, 200)
                            EXCEPT !.broadcast = TRUE]
    /\ UNCHANGED <<n_created, responses, ttask>>

\* Mutant of FeedbackUpdate: a thumbs down is taken for no feedback.
FeedbackUpdate_Truthy(feedback_data) ==
    IF feedback_data.feedback = 0
    THEN [feedback_choices |-> Some(JsonDumps(feedback_data.feedback_choices))]
    ELSE [feedback |-> Some(feedback_data.feedback),
          feedback_choices |-> Some(JsonDumps(feedback_data.feedback_choices))]

\* main.py:964-975: the AnnotationUpdate of submit_feedback.
FeedbackUpdate(feedback_data) ==
    [feedback |-> Some(feedback_data.feedback),
     feedback_choices |-> Some(JsonDumps(feedback_data.feedback_choices))]

\* main.py:951-989: submit_feedback.
SubmitFeedback(id, feedback_data) ==
    /\ UNCHANGED rvars
    /\ CatalogVideosSame
    /\ PipelineTasksSame
    /\ IF ~RowExists(annotations, id)
       THEN /\ reply' = Reply("submit_feedback", id, 404)
            /\ UNCHANGED annotations
       ELSE /\ annotations' =
                  DbUpdate(annotations, id, FeedbackUpdate(feedback_data))
            /\ reply' = [Reply("submit_feedback", id, 200)
                            EXCEPT !.args = feedback_data]
    /\ UNCHANGED <<audio_files, n_created, responses, ttask>>

\* main.py:1011-1025: the entry of an annotation in the export.
ExportEntry(row) ==
    [transcription |-> row.transcription,
     extended_transcript |-> row.extended_transcript,
     feedback |-> row.feedback,
     feedback_choices |->
         IF ~row.feedback_choices.null /\ Len(row.feedback_choices.v) > 0
         THEN Some(JsonLoads(row.feedback_choices.v))
         ELSE NoneOf(<<>>),
     start_time |-> row.start_time,
     end_time |-> row.end_time,
     audio_file |-> row.audio]

\* main.py:992-1047: export_annotations; the export is written to a file
\* named after the video and the time.
ExportAnnotations(v) ==
    /\ UNCHANGED <<rvars, pvars>>
    /\ UNCHANGED <<projects, videos, video_files, n_videos, clock>>
    /\ IF ~RowExists(videos, v)
       THEN /\ reply' = Reply("export_annotations", v, 404)
            /\ UNCHANGED exports
       ELSE /\ exports' = exports \cup {[video |-> v, time |-> clock]}
            /\ reply' = Reply("export_annotations", v, 200)

\* The folder identifiers of the model.
FolderInputs == {"", "folder"}

\* main.py:1068-1093: get_gdrive_videos. The HTTPException of the empty
\* identifier is raised inside the try and caught by "except Exception";
\* the listing itself succeeds or raises (gdrive_service.py:46-77).
GetGdriveVideos(folder_id, listed) ==
    /\ UNCHANGED <<rvars, pvars>>
    /\ CatalogVideosSame
    /\ reply' = ReplyWith("get_gdrive_videos", 0,
                          IF folder_id = "" THEN 500
                          ELSE IF listed THEN 200 ELSE 500,
                          folder_id)

\* Mutant of VideoFileStatus: the file on disk is not looked for.
VideoFileStatus_RowOnly(rows, files, v) ==
    IF RowExists(rows, v) THEN 200 ELSE 404

\* main.py:252-258: 404 if the row is missing, 404 if the file is.
VideoFileStatus(rows, files, v) ==
    IF ~RowExists(rows, v) THEN 404
    ELSE IF rows[v].filepath \notin files THEN 404
    ELSE 200

\* main.py:245-258: get_video_file for video v: the row and the file are
\* looked up. What is served when both are there is the subject of
\* GetVideoFile and IterFile.
FindVideoFile(v) ==
    /\ UNCHANGED <<rvars, pvars>>
    /\ CatalogVideosSame
    /\ reply' = Reply("get_video_file", v,
                      VideoFileStatus(videos, video_files, v))

\* The owner of a local file removes it; the program has no part in it.
LocalFileRemoved(path) ==
    /\ UNCHANGED <<rvars, pvars>>
    /\ UNCHANGED <<projects, videos, n_videos, exports, clock>>
    /\ path \in video_files
    /\ video_files' = video_files \ {path}
    /\ reply' = NoReply

(***************************************************************************)
(* process_transcription (main.py:713-778).                                *)
(***************************************************************************)
\* main.py:716-722: the task starts and writes "processing".
TStart(k) ==
    /\ UNCHANGED <<rvars, cvars>>
    /\ ttask[k].pc = "start"
    /\ annotations' = DbUpdate(annotations, ttask[k].annotation_id,
                               TranscriptionProcessing)
    /\ ttask' = [ttask EXCEPT ![k] =
                    AfterWrite(@, annotations, "processing", "bcast_status",
                               TranscriptionStatusMsg(@.annotation_id))]
    /\ UNCHANGED <<audio_files, n_created, n_updates, responses, etask,
                   active_connections, ws>>

\* One send of a broadcast of the task.
TSend(k) ==
    /\ UNCHANGED <<rvars, cvars>>
    /\ ttask[k].pc \in BroadcastPcs
    /\ ~BroadcastOver(ttask[k], active_connections)
    /\ ttask' = [ttask EXCEPT ![k] = BroadcastTurn(@, active_connections, ws)]
    /\ UNCHANGED <<annotations, audio_files, n_created, n_updates, responses,
                   etask, active_connections, ws>>

\* main.py:734, transcription.py:38: the status broadcast is over and
\* transcribe_audio sleeps before it looks for the file.
TBeginTranscribe(k) ==
    /\ UNCHANGED <<rvars, cvars>>
    /\ ttask[k].pc = "bcast_status"
    /\ BroadcastOver(ttask[k], active_connections)
    /\ ttask' = [ttask EXCEPT ![k] = AfterBroadcast(@, "sleeping")]
    /\ UNCHANGED <<annotations, audio_files, n_created, n_updates, responses,
                   etask, active_connections, ws>>

\* main.py:760-770: the except branch writes "failed".
TFail(k, e) ==
    /\ annotations' = DbUpdate(annotations, ttask[k].annotation_id,
                               TranscriptionFailed)
    /\ ttask' = [ttask EXCEPT ![k] =
                    AfterWrite([@ EXCEPT !.error = e], annotations, "failed",
                               "bcast_error",
                               TranscriptionErrorMsg(@.annotation_id, e))]

\* transcription.py:44-46: the file is there and the request is posted, or
\* FileNotFoundError is raised.
TCheckFile(k) ==
    /\ UNCHANGED <<rvars, cvars>>
    /\ ttask[k].pc = "sleeping"
    /\ IF k \in audio_files
       THEN /\ ttask' = [ttask EXCEPT ![k].pc = "posting"]
            /\ UNCHANGED annotations
       ELSE TFail(k, "FileNotFoundError")
    /\ UNCHANGED <<audio_files, n_created, n_updates, responses, etask,
                   active_connections, ws>>

\* transcription.py:69-92, main.py:737-745: the provider answers with a text,
\* which is written with "completed".
TTranscribed(k, text) ==
    /\ UNCHANGED <<rvars, cvars>>
    /\ ttask[k].pc = "posting"
    /\ annotations' = DbUpdate(annotations, ttask[k].annotation_id,
                               TranscriptionCompleted(text))
    /\ ttask' = [ttask EXCEPT ![k] =
                    AfterWrite([@ EXCEPT !.text = text], annotations,
                               "completed", "bcast_complete",
                               TranscriptionCompleteMsg(@.annotation_id, text))]
    /\ UNCHANGED <<audio_files, n_created, n_updates, responses, etask,
                   active_connections, ws>>

\* transcription.py:74-77, 94-96: the provider or the network fails.
TTranscribeFails(k, e) ==
    /\ UNCHANGED <<rvars, cvars>>
    /\ ttask[k].pc = "posting"
    /\ TFail(k, e)
    /\ UNCHANGED <<audio_files, n_created, n_updates, responses, etask,
                   active_connections, ws>>

\* main.py:756-758: the completion broadcast is over; the enrichment task is
\* spawned with the text and the task ends.
TChain(k) ==
    /\ UNCHANGED <<rvars, cvars>>
    /\ ttask[k].pc = "bcast_complete"
    /\ BroadcastOver(ttask[k], active_connections)
    /\ etask' = [etask EXCEPT ![k] =
                    SpawnTask(ttask[k].annotation_id, ttask[k].text)]
    /\ ttask' = [ttask EXCEPT ![k] = AfterBroadcast(@, "done")]
    /\ UNCHANGED <<annotations, audio_files, n_created, n_updates, responses,
                   active_connections, ws>>

\* main.py:772-778: the error broadcast is over and the task ends.
TEndFailed(k) ==
    /\ UNCHANGED <<rvars, cvars>>
    /\ ttask[k].pc = "bcast_error"
    /\ BroadcastOver(ttask[k], active_connections)
    /\ ttask' = [ttask EXCEPT ![k] = AfterBroadcast(@, "done")]
    /\ UNCHANGED <<annotations, audio_files, n_created, n_updates, responses,
                   etask, active_connections, ws>>

(***************************************************************************)
(* process_extended_transcript (main.py:781-847).                          *)
(***************************************************************************)
\* main.py:786-792
EStart(k) ==
    /\ UNCHANGED <<rvars, cvars>>
    /\ etask[k].pc = "start"
    /\ annotations' = DbUpdate(annotations, etask[k].annotation_id,
                               ExtendedProcessing)
    /\ etask' = [etask EXCEPT ![k] =
                    AfterWrite(@, annotations, "processing", "bcast_status",
                               ExtendedStatusMsg(@.annotation_id))]
    /\ UNCHANGED <<audio_files, n_created, n_updates, responses, ttask,
                   active_connections, ws>>

ESend(k) ==
    /\ UNCHANGED <<rvars, cvars>>
    /\ etask[k].pc \in BroadcastPcs
    /\ ~BroadcastOver(etask[k], active_connections)
    /\ etask' = [etask EXCEPT ![k] = BroadcastTurn(@, active_connections, ws)]
    /\ UNCHANGED <<annotations, audio_files, n_created, n_updates, responses,
                   ttask, active_connections, ws>>

\* main.py:804: the status broadcast is over and the collaborator is called.
EBeginGenerate(k) ==
    /\ UNCHANGED <<rvars, cvars>>
    /\ etask[k].pc = "bcast_status"
    /\ BroadcastOver(etask[k], active_connections)
    /\ etask' = [etask EXCEPT ![k] = AfterBroadcast(@, "calling")]
    /\ UNCHANGED <<annotations, audio_files, n_created, n_updates, responses,
                   ttask, active_connections, ws>>

\* llm_service.py:58-60: an empty transcription is answered None without a
\* request; otherwise the provider may answer a text.
CanGenerate(transcription) == transcription # ""

\* llm_service.py:104-110, main.py:806-816
EGenerated(k, text) ==
    /\ UNCHANGED <<rvars, cvars>>
    /\ etask[k].pc = "calling"
    /\ CanGenerate(etask[k].text)
    /\ annotations' = DbUpdate(annotations, etask[k].annotation_id,
                               ExtendedCompleted(text))
    /\ etask' = [etask EXCEPT ![k] =
                    AfterWrite(@, annotations, "completed", "bcast_complete",
                               ExtendedCompleteMsg(@.annotation_id, text))]
    /\ UNCHANGED <<audio_files, n_created, n_updates, responses, ttask,
                   active_connections, ws>>

\* llm_service.py:54-60, 97-123, main.py:826-839: the collaborator returns
\* None, the task raises and its except branch writes "failed".
EGenerateFails(k) ==
    /\ UNCHANGED <<rvars, cvars>>
    /\ etask[k].pc = "calling"
    /\ annotations' = DbUpdate(annotations, etask[k].annotation_id,
                               ExtendedFailed)
    /\ etask' = [etask EXCEPT ![k] =
                    AfterWrite([@ EXCEPT !.error = "NoExtendedTranscript"],
                               annotations, "failed", "bcast_error",
                               ExtendedErrorMsg(@.annotation_id,
                                                "NoExtendedTranscript"))]
    /\ UNCHANGED <<audio_files, n_created, n_updates, responses, ttask,
                   active_connections, ws>>

\* The completion or the error broadcast is over and the task ends.
EEnd(k) ==
    /\ UNCHANGED <<rvars, cvars>>
    /\ etask[k].pc \in {"bcast_complete", "bcast_error"}
    /\ BroadcastOver(etask[k], active_connections)
    /\ etask' = [etask EXCEPT ![k] = AfterBroadcast(@, "done")]
    /\ UNCHANGED <<annotations, audio_files, n_created, n_updates, responses,
                   ttask, active_connections, ws>>

(***************************************************************************)
(* Failures of the store inside the tasks: db.update_annotation raises     *)
(* (the database is locked or gone), in the body of a task or in its       *)
(* except branch.                                                          *)
(***************************************************************************)
\* Mutant of CatchOf: the except branch has no try of its own.
CatchOf_NoInnerTry(place) ==
    IF place = "body" THEN "except" ELSE "escape"

\* main.py:760, 777-778 and 829, 846-847: what catches an exception raised
\* at a place of a task: the body is inside "try ... except Exception", the
\* except branch is inside "try ... except: pass".
CatchOf(place) ==
    IF place = "body" THEN "except"
    ELSE IF place = "except" THEN "pass"
    ELSE "escape"

\* The task after an exception e that nothing recorded: it ends when the
\* exception was swallowed, and is torn down by it otherwise.
Unrecorded(t, e) ==
    [t EXCEPT !.error = e,
              !.pc = IF CatchOf("except") = "pass" THEN "done" ELSE "escaped"]

\* main.py:717-722, 738-745: a write of the body raises; the except branch
\* writes "failed" and broadcasts the error.
TStoreFails(k) ==
    /\ UNCHANGED <<rvars, cvars>>
    /\ ttask[k].pc \in {"start", "posting"}
    /\ CatchOf("body") = "except"
    /\ TFail(k, "StoreError")
    /\ UNCHANGED <<audio_files, n_created, n_updates, responses, etask,
                   active_connections, ws>>

\* main.py:764-778: the body raised e and the write of "failed" raises too.
TFailureLost(k, e) ==
    /\ UNCHANGED <<rvars, cvars>>
    /\ ttask[k].pc \in {"start", "posting"}
    /\ CatchOf("body") = "except"
    /\ ttask' = [ttask EXCEPT ![k] = Unrecorded(@, e)]
    /\ UNCHANGED <<annotations, audio_files, n_created, n_updates, responses,
                   etask, active_connections, ws>>

\* main.py:787-792, 808-816: a write of the body raises; the except branch
\* writes "failed" and broadcasts the error.
EStoreFails(k) ==
    /\ UNCHANGED <<rvars, cvars>>
    /\ etask[k].pc \in {"start", "calling"}
    /\ CatchOf("body") = "except"
    /\ annotations' = DbUpdate(annotations, etask[k].annotation_id,
                               ExtendedFailed)
    /\ etask' = [etask EXCEPT ![k] =
                    AfterWrite([@ EXCEPT !.error = "StoreError"],
                               annotations, "failed", "bcast_error",
                               ExtendedErrorMsg(@.annotation_id, "StoreError"))]
    /\ UNCHANGED <<audio_files, n_created, n_updates, responses, ttask,
                   active_connections, ws>>

\* main.py:833-847: the body raised e and the write of "failed" raises too.
EFailureLost(k, e) ==
    /\ UNCHANGED <<rvars, cvars>>
    /\ etask[k].pc \in {"start", "calling"}
    /\ CatchOf("body") = "except"
    /\ etask' = [etask EXCEPT ![k] = Unrecorded(@, e)]
    /\ UNCHANGED <<annotations, audio_files, n_created, n_updates, responses,
                   ttask, active_connections, ws>>

\* What the body of each task raises before the write of "failed".
TBodyErrors == TranscribeErrors \cup {"StoreError"}

EBodyErrors == {"StoreError", "NoExtendedTranscript"}

(***************************************************************************)
(* The specifications.                                                     *)
(***************************************************************************)
Init == CatalogQuiet /\ RangeQuiet /\ OneObserver

InitChannel == CatalogQuiet /\ RangeQuiet /\ OneAnnotation

Registry ==
    \E c \in Sockets :
        Connect(c) \/ PeerGone(c) \/ Disconnect(c) \/ ReceiveFails(c)

Requests ==
    \/ CreateAnnotation
    \/ \E id \in Creations, upd \in UpdateInputs : UpdateAnnotation(id, upd)
    \/ \E id \in Creations : DeleteAnnotation(id)

Transcription ==
    \E k \in Creations :
        \/ TStart(k)
        \/ TSend(k)
        \/ TBeginTranscribe(k)
        \/ TCheckFile(k)
        \/ \E text \in TranscribedTexts : TTranscribed(k, text)
        \/ \E e \in TranscribeErrors : TTranscribeFails(k, e)
        \/ TChain(k)
        \/ TEndFailed(k)

Enrichment ==
    \E k \in Creations :
        \/ EStart(k)
        \/ ESend(k)
        \/ EBeginGenerate(k)
        \/ \E text \in ExtendedTexts : EGenerated(k, text)
        \/ EGenerateFails(k)
        \/ EEnd(k)

\* The pipeline with its requests. The registry is the one observer of Init:
\* connects and disconnects change how many sends a broadcast makes and
\* nothing of the store.
Next == Requests \/ Transcription \/ Enrichment

Spec == Init /\ [][Next]_vars

\* The notification channel: the tasks of one annotation broadcast while
\* websockets connect, break and disconnect.
NextChannel == Registry \/ Transcription \/ Enrichment

SpecChannel == InitChannel /\ [][NextChannel]_vars

\* The tasks of the annotations that are created, with a store that may
\* fail and an observer that may go away.
StoreFaults ==
    \E k \in Creations :
        \/ TStoreFails(k)
        \/ \E e \in TBodyErrors : TFailureLost(k, e)
        \/ EStoreFails(k)
        \/ \E e \in EBodyErrors : EFailureLost(k, e)

NextFaults ==
    \/ CreateAnnotation
    \/ \E c \in Sockets : PeerGone(c)
    \/ Transcription
    \/ Enrichment
    \/ StoreFaults

SpecFaults == Init /\ [][NextFaults]_vars

\* The steps of the two tasks of creation k that the event loop schedules.
TaskSteps(k) ==
    \/ TStart(k)
    \/ TSend(k)
    \/ TBeginTranscribe(k)
    \/ TCheckFile(k)
    \/ \E text \in TranscribedTexts : TTranscribed(k, text)
    \/ \E e \in TranscribeErrors : TTranscribeFails(k, e)
    \/ TChain(k)
    \/ TEndFailed(k)
    \/ EStart(k)
    \/ ESend(k)
    \/ EBeginGenerate(k)
    \/ \E text \in ExtendedTexts : EGenerated(k, text)
    \/ EGenerateFails(k)
    \/ EEnd(k)

\* The same, where the event loop runs every task that can go on and every
\* call of a collaborator returns or raises.
SpecFaultsFair ==
    Init /\ [][NextFaults]_vars /\ \A k \in Creations : WF_vars(TaskSteps(k))

\* Creations and deletions with one creation more than the other
\* specifications have, so that an annotation can be created after another
\* one was deleted; no client update is made.
Slots == 1..(MaxCreates + 1)

InitReuse ==
    /\ CatalogQuiet
    /\ RangeQuiet
    /\ annotations = [i \in Slots |-> NoRow]
    /\ audio_files = {}
    /\ n_created = 0
    /\ n_updates = 0
    /\ responses = [k \in Slots |-> NoCreateResponse]
    /\ ttask = [k \in Slots |-> NoTask]
    /\ etask = [k \in Slots |-> NoTask]
    /\ active_connections = <<1>>
    /\ ws = [c \in Sockets |-> IF c = 1 THEN "open" ELSE "new"]

NextReuse ==
    \/ \E k \in Slots : CreateAnnotationAs(k)
    \/ \E id \in Slots : DeleteAnnotation(id)
    \/ \E k \in Slots : TaskSteps(k)

SpecReuse == InitReuse /\ [][NextReuse]_vars

NextRange == GetVideoFile \/ IterFile

\* The catalog: requests about videos and their annotations, one after the
\* other; the background tasks are started and not run. No project exists,
\* and updates and feedback go to an annotation that is not stored: projects
\* are the subject of SpecProjects and the fields of an annotation that of
\* SpecFields.
MissingAnnotationId == MaxCreates + 1

VideoRequests ==
    \/ \E ext \in ExtensionInputs, size \in UploadSizes : UploadVideo(ext, size)
    \/ \E l \in LocalInputs : RegisterLocalVideo(l)
    \/ \E v \in VideoIdInputs : GetVideo(v)
    \/ \E v \in VideoIdInputs : UpdateVideo(v, [project_id |-> NoProjectId])
    \/ \E v \in VideoIdInputs : DeleteVideo(v)
    \/ \E v \in VideoIdInputs : ExportAnnotations(v)
    \/ \E v \in VideoIdInputs : FindVideoFile(v)
    \/ \E f \in FolderInputs, listed \in BOOLEAN : GetGdriveVideos(f, listed)

MissingProjectRequests ==
    \/ \E p \in ProjectIdInputs : GetProject(p)
    \/ \E p \in ProjectIdInputs : GetProjectVideos(p)
    \/ \E p \in ProjectIdInputs : UpdateProject(p, [name |-> "renamed"])
    \/ \E p \in ProjectIdInputs : DeleteProject(p)

AnnotationRequests ==
    \/ \E v \in VideoIdInputs, st, et \in TimeInputs :
          CreateAnnotationRequest(v, st, et)
    \/ \E a \in AnnotationIdInputs : GetAnnotation(a)
    \/ UpdateAnnotationRequest(MissingAnnotationId, [transcription |-> "edited"])
    \/ \E a \in AnnotationIdInputs : DeleteAnnotationRequest(a)
    \/ SubmitFeedback(MissingAnnotationId,
                      [feedback |-> 0, feedback_choices |-> <<1, 0, 0, 1, 0>>])

NextCatalog ==
    \/ VideoRequests
    \/ MissingProjectRequests
    \/ AnnotationRequests
    \/ LocalFileRemoved(LocalPath(1))

InitCatalog == CatalogQuiet /\ RangeQuiet /\ PipelineInit

SpecCatalog == InitCatalog /\ [][NextCatalog]_vars

\* An uploaded video is stored.
OneVideo ==
    /\ projects = [p \in ProjectIds |-> NoProject]
    /\ videos = [v \in VideoIds |->
                    IF v = 1 THEN UploadedVideo(UploadPath(1)) ELSE NoVideo]
    /\ video_files = LocalFiles \cup {UploadPath(1)}
    /\ n_videos = 1
    /\ exports = {}
    /\ clock = 0
    /\ reply = NoReply

\* Projects: they are created, renamed and deleted, and videos are put in
\* them and taken out, starting with one video that has an annotation.
NextProjects ==
    \/ CreateProject
    \/ \E p \in ProjectIdInputs : GetProject(p)
    \/ \E p \in ProjectIdInputs : GetProjectVideos(p)
    \/ \E p \in ProjectIdInputs : UpdateProject(p, [name |-> "renamed"])
    \/ \E p \in ProjectIdInputs : DeleteProject(p)
    \/ \E v \in VideoIdInputs, u \in VideoUpdateInputs : UpdateVideo(v, u)
    \/ \E l \in LocalInputs : RegisterLocalVideo(l)
    \/ \E v \in VideoIdInputs : GetVideo(v)

InitProjects == OneVideo /\ RangeQuiet /\ OneAnnotation

SpecProjects == InitProjects /\ [][NextProjects]_vars

\* The fields of one annotation: updates and feedback on the annotation of
\* an uploaded video, while time passes.
NextFields ==
    \/ \E a \in AnnotationIdInputs, u \in CatalogUpdateInputs :
          UpdateAnnotationRequest(a, u)
    \/ \E a \in AnnotationIdInputs, f \in FeedbackValues, c \in ChoiceVectors :
          SubmitFeedback(a, [feedback |-> f, feedback_choices |-> c])
    \/ \E a \in AnnotationIdInputs : GetAnnotation(a)
    \/ Tick

InitFields == OneVideo /\ RangeQuiet /\ OneAnnotation

SpecFields == InitFields /\ [][NextFields]_vars

\* One request for a video file; no annotation exists.
InitOneRequest == CatalogQuiet /\ InitRange /\ PipelineInit

SpecRange == InitOneRequest /\ [][NextRange]_vars

\* One request for a video file whose file may be cut while it is streamed;
\* the consumer of the stream keeps asking the generator for its next chunk.
NextShrink ==
    \/ GetVideoFile
    \/ IterFile
    \/ \E n \in ShrunkSizes : FileTruncated(n)

SpecShrink ==
    InitOneRequest /\ [][NextShrink]_vars /\ WF_vars(IterFile)

(***************************************************************************)
(* Claims about the pipeline, checked under Spec.                          *)
(***************************************************************************)
Range(seq) == {seq[i] : i \in 1..Len(seq)}

StoredIds == {id \in Creations : annotations[id].exists}

\* C5: in every reachable state the enrichment status of a stored annotation
\* is "processing" only if its transcription status is "completed".
C5_EnrichmentAfterTranscription ==
    \A id \in StoredIds :
        annotations[id].extended_transcript_status = "processing"
            => annotations[id].transcription_status = "completed"

\* The steps the state machine of a status field allows.
ForwardSteps ==
    {<<"pending", "processing">>, <<"processing", "completed">>,
     <<"processing", "failed">>}

\* The row id holds the same annotation before and after the step.
SameAnnotation(id) ==
    /\ annotations[id].exists
    /\ annotations'[id].exists
    /\ annotations'[id].audio = annotations[id].audio

\* C6: every change of a status field of an annotation is one of
\* pending -> processing, processing -> completed, processing -> failed.
C6_StatusOnlyForward ==
    [][\A id \in Creations :
          SameAnnotation(id) =>
             \A f \in {"transcription_status", "extended_transcript_status"} :
                 \/ annotations'[id][f] = annotations[id][f]
                 \/ <<annotations[id][f], annotations'[id][f]>> \in ForwardSteps]_vars

\* C7: in every reachable state both status fields of every stored
\* annotation hold one of pending, processing, completed, failed.
C7_StatusInDomain ==
    \A id \in StoredIds :
        /\ annotations[id].transcription_status \in Statuses
        /\ annotations[id].extended_transcript_status \in Statuses

\* The collaborator failed in this step of the transcription task k: the
\* task caught its first exception.
TranscriptionFailsNow(k) ==
    ttask[k].error = "none" /\ ttask'[k].error # "none"

\* C8: when the transcription collaborator fails (the provider, the network
\* or a missing recording), the step that catches the failure sets the
\* transcription status of the annotation to "failed" and goes on to
\* broadcast a transcription_error event for it, which reaches the observers
\* before the task ends; the response of create_annotation, 200 with the
\* pending row, was given before and never changes.
C8_FailureStep ==
    \A k \in Creations :
        /\ TranscriptionFailsNow(k) =>
              /\ RowExists(annotations, ttask[k].annotation_id) =>
                    annotations'[ttask[k].annotation_id].transcription_status
                        = "failed"
              /\ ttask'[k].pc = "bcast_error"
              /\ ttask'[k].msg =
                    [type |-> "transcription_error",
                     annotation_id |-> ttask[k].annotation_id,
                     payload |-> ttask'[k].error]
        /\ (ttask[k].pc = "bcast_error" /\ ttask'[k].pc # "bcast_error") =>
              /\ ttask'[k].pc = "done"
              /\ ttask[k].b_sent = Range(active_connections)
        /\ responses[k] # NoCreateResponse => responses'[k] = responses[k]

C8_FailureState ==
    \A k \in Creations :
        /\ ttask[k].error # "none" => ttask[k].pc \in {"bcast_error", "done"}
        /\ ttask[k].pc # "none" =>
              /\ responses[k].status = 200
              /\ responses[k].annotation.transcription_status = "pending"

C8_TranscriptionFailure == []C8_FailureState /\ [][C8_FailureStep]_vars

\* The provider failed, the task has ended, the stored annotation is
\* "failed" and the caller holds its 200.
C8_Witness ==
    \E k \in Creations :
        /\ ttask[k].pc = "done"
        /\ ttask[k].error = "TranscriptionApiError"
        /\ RowExists(annotations, ttask[k].annotation_id)
        /\ annotations[ttask[k].annotation_id].transcription_status = "failed"
        /\ responses[k].status = 200

\* The status a broadcast of a task announces, by the place of the task.
AnnouncedStatus(pc) ==
    CASE pc = "bcast_status" -> "processing"
      [] pc = "bcast_complete" -> "completed"
      [] pc = "bcast_error" -> "failed"

\* The event type of a track for each of its transitions.
EventType(track, pc) ==
    CASE pc = "bcast_status" -> track \o "_status"
      [] pc = "bcast_complete" -> track \o "_complete"
      [] pc = "bcast_error" -> track \o "_error"

\* A task t of a track is in a broadcast: the status it announces is the one
\* it passed to its last db.update_annotation, and the event carries the
\* track's event type, the annotation id and the status, text or error.
BroadcastMatchesWrite(t, track) ==
    t.pc \in BroadcastPcs =>
        /\ t.written = AnnouncedStatus(t.pc)
        /\ t.msg.type = EventType(track, t.pc)
        /\ t.msg.annotation_id = t.annotation_id
        /\ t.pc = "bcast_status" => t.msg.payload = "processing"
        /\ t.pc = "bcast_error" => t.msg.payload = t.error

\* A step takes task t to t2: if it writes a status it finds the row with
\* that status (and the text the event carries) afterwards and has not sent
\* the event to anyone yet; the write is followed by the broadcast.
WriteThenBroadcast(t, t2, status_field, text_field) ==
    /\ (t2.pc \in BroadcastPcs /\ t2.pc # t.pc) =>
          /\ t2.b_sent = {}
          /\ t2.written = AnnouncedStatus(t2.pc)
          /\ t2.hit = RowExists(annotations, t.annotation_id)
          /\ t2.hit =>
                /\ annotations'[t.annotation_id][status_field] = t2.written
                /\ t2.pc = "bcast_complete" =>
                      annotations'[t.annotation_id][text_field] = t2.msg.payload
    /\ t2.written # t.written => t2.pc \in BroadcastPcs
    /\ t2.b_sent # {} => (t2.pc = t.pc /\ t.pc \in BroadcastPcs)

C9_State ==
    \A k \in Creations :
        /\ BroadcastMatchesWrite(ttask[k], "transcription")
        /\ BroadcastMatchesWrite(etask[k], "extended_transcript")

C9_Step ==
    \A k \in Creations :
        /\ WriteThenBroadcast(ttask[k], ttask'[k], "transcription_status",
                              "transcription")
        /\ WriteThenBroadcast(etask[k], etask'[k], "extended_transcript_status",
                              "extended_transcript")

\* C9: every status written by a task is followed by the broadcast of the
\* track's event with the annotation id and the new status, error or text,
\* and no send of an event happens before the task's write of that status.
C9_WriteBeforeBroadcast == []C9_State /\ [][C9_Step]_vars

\* The completion of the enrichment track has been written and its event
\* has been sent to the observer.
C9_Witness ==
    \E k \in Creations :
        /\ etask[k].pc = "bcast_complete"
        /\ etask[k].hit
        /\ etask[k].b_sent # {}
        /\ etask[k].msg.type = "extended_transcript_complete"
        /\ annotations[etask[k].annotation_id].extended_transcript_status
              = "completed"

\* The call of the collaborator by the enrichment task k ends in this step.
EnrichmentAnswersNow(k) ==
    etask[k].pc = "calling" /\ etask'[k].pc # "calling"

C21_EmptyResultStep ==
    \A k \in Creations :
        LET id == etask[k].annotation_id
        IN /\ EnrichmentAnswersNow(k) =>
                 /\ etask[k].text = "" => etask'[k].pc = "bcast_error"
                 /\ etask'[k].pc \in {"bcast_error", "bcast_complete"}
                 /\ etask'[k].pc = "bcast_error" =>
                       /\ etask'[k].written = "failed"
                       /\ etask'[k].msg =
                             ExtendedErrorMsg(id, "NoExtendedTranscript")
                       /\ RowExists(annotations, id) =>
                             /\ annotations'[id].extended_transcript_status
                                   = "failed"
                             /\ annotations'[id].extended_transcript
                                   = annotations[id].extended_transcript
                 /\ etask'[k].pc = "bcast_complete" =>
                       /\ etask'[k].msg.payload \notin {"", "None"}
                       /\ RowExists(annotations, id) =>
                             annotations'[id].extended_transcript
                                 = etask'[k].msg.payload
           /\ (etask[k].pc = "bcast_error" /\ etask'[k].pc # "bcast_error") =>
                 /\ etask'[k].pc = "done"
                 /\ etask[k].b_sent = Range(active_connections)

C21_EmptyResultState ==
    \A id \in StoredIds :
        (n_updates = 0
            /\ annotations[id].extended_transcript_status = "completed") =>
                annotations[id].extended_transcript \notin {"", "None"}

\* C21: when the enrichment collaborator answers nothing (as it does for an
\* empty transcription), the step of process_extended_transcript that takes
\* the answer sets the enrichment status to "failed", leaves the enriched
\* text as it was and goes on to broadcast an extended_transcript_error
\* event, which reaches the observers before the task ends; the task writes
\* "completed" only together with a non-empty text, so that no row that the
\* tasks alone have written is completed with an empty enriched text.
C21_EmptyResultIsFailure ==
    []C21_EmptyResultState /\ [][C21_EmptyResultStep]_vars

\* The transcription was empty, the enrichment failed for it and the error
\* event has been sent to the observer; the stored row holds no enriched text.
C21_Witness ==
    \E k \in Creations :
        /\ etask[k].text = ""
        /\ etask[k].pc = "bcast_error"
        /\ etask[k].b_sent = Range(active_connections)
        /\ etask[k].b_sent # {}
        /\ RowExists(annotations, etask[k].annotation_id)
        /\ annotations[etask[k].annotation_id].extended_transcript_status
              = "failed"
        /\ annotations[etask[k].annotation_id].extended_transcript = "None"

\* A send of a broadcast that a task began after a write that found no row.
SentForMissingRow(t) == t.pc \in BroadcastPcs /\ t.b_sent # {} /\ ~t.hit

\* C29: once an annotation is deleted, its tasks broadcast no event for it
\* (a broadcast whose write found the row gone sends nothing) and no
\* enrichment task is started for it.
C29_SilentAfterDelete ==
    /\ [](\A k \in Creations :
             ~SentForMissingRow(ttask[k]) /\ ~SentForMissingRow(etask[k]))
    /\ [][\A k \in Creations :
             (etask[k].pc = "none" /\ etask'[k].pc = "start") =>
                 RowExists(annotations, etask'[k].annotation_id)]_vars

(***************************************************************************)
(* Claims about the tasks when the store or the collaborators fail,        *)
(* checked under SpecFaults and SpecFaultsFair.                            *)
(***************************************************************************)
\* The task t caught its first exception in the step to t2: either the
\* failure is recorded (status st written, error event m queued) or the
\* recording failed too and the task ended without a write or a send.
FailureFunnelled(t, t2, m) ==
    (t.error = "none" /\ t2.error # "none") =>
        \/ /\ t2.pc = "bcast_error"
           /\ t2.written = "failed"
           /\ t2.msg = m
        \/ /\ t2.pc = "done"
           /\ t2.written = t.written
           /\ annotations' = annotations

\* The error broadcast of t is over: every observer of the registry was
\* tried, whether its send raised or not, and the task ends.
NotifiedBestEffort(t, t2) ==
    (t.pc = "bcast_error" /\ t2.pc # "bcast_error") =>
        /\ t2.pc = "done"
        /\ t.b_sent = Range(active_connections)

C22_Step ==
    \A k \in Creations :
        /\ FailureFunnelled(ttask[k], ttask'[k],
                            TranscriptionErrorMsg(ttask[k].annotation_id,
                                                  ttask'[k].error))
        /\ TranscriptionFailsNow(k) /\ ttask'[k].pc = "bcast_error"
              /\ RowExists(annotations, ttask[k].annotation_id) =>
                 annotations'[ttask[k].annotation_id].transcription_status
                     = "failed"
        /\ NotifiedBestEffort(ttask[k], ttask'[k])
        /\ FailureFunnelled(etask[k], etask'[k],
                            ExtendedErrorMsg(etask[k].annotation_id,
                                             etask'[k].error))
        /\ etask[k].error = "none" /\ etask'[k].pc = "bcast_error"
              /\ RowExists(annotations, etask[k].annotation_id) =>
                 annotations'[etask[k].annotation_id].extended_transcript_status
                     = "failed"
        /\ NotifiedBestEffort(etask[k], etask'[k])

C22_State ==
    \A k \in Creations :
        /\ ttask[k].pc # "escaped"
        /\ etask[k].pc # "escaped"

\* C22: no exception leaves process_transcription or
\* process_extended_transcript: a failure of the body (a collaborator or the
\* store) is caught, "failed" is written and the error event is broadcast to
\* every observer, whose own send may fail; when the write of "failed"
\* raises too, that exception is swallowed and the task ends.
C22_NoExceptionEscapes == []C22_State /\ [][C22_Step]_vars

\* Both ways have happened to one annotation: the transcription ended, its
\* enrichment task raised and the recording of that failure raised too (the
\* task is over, the row still says "processing"); the observer is gone.
C22_Witness ==
    \E k \in Creations :
        /\ etask[k].pc = "done"
        /\ etask[k].error = "StoreError"
        /\ etask[k].written = "processing"
        /\ RowExists(annotations, etask[k].annotation_id)
        /\ annotations[etask[k].annotation_id].extended_transcript_status
              = "processing"
        /\ \E c \in Sockets : ws[c] = "broken"

\* C23: every track of a stored annotation whose status is "processing"
\* later has the status "completed" or "failed".
C23_ProcessingEnds ==
    \A id \in Creations :
        /\ (annotations[id].exists
              /\ annotations[id].transcription_status = "processing")
             ~> (annotations[id].exists
                   /\ annotations[id].transcription_status
                         \in {"completed", "failed"})
        /\ (annotations[id].exists
              /\ annotations[id].extended_transcript_status = "processing")
             ~> (annotations[id].exists
                   /\ annotations[id].extended_transcript_status
                         \in {"completed", "failed"})

(***************************************************************************)
(* Claims about the tasks of several annotations, checked under SpecReuse. *)
(* The annotation of creation k is the row whose recording is k.           *)
(***************************************************************************)
\* The enrichment task of creation k is spawned in this step.
EnrichmentSpawnedNow(k) == etask[k].pc = "none" /\ etask'[k].pc # "none"

\* The enrichment task of some creation has sent an event for the row id.
EnrichmentEventSent(id) ==
    \E k \in Slots :
        /\ etask[k].annotation_id = id
        /\ etask[k].pc \in BroadcastPcs
        /\ etask[k].b_sent # {}

\* C24: the enrichment task of an annotation is spawned once, by its
\* transcription task at the end of the broadcast of "completed", with the
\* transcribed text; a stored annotation whose transcription task has
\* written "failed" keeps the enrichment status "pending" and no enrichment
\* event is sent for it.
C24_EnrichmentOnlyAfterCompletion ==
    /\ [][\A k \in Slots :
             /\ EnrichmentSpawnedNow(k) =>
                   /\ ttask[k].pc = "bcast_complete"
                   /\ ttask[k].written = "completed"
                   /\ etask'[k].pc = "start"
                   /\ etask'[k].annotation_id = ttask[k].annotation_id
                   /\ etask'[k].text = ttask[k].text
             /\ etask[k].pc # "none" => etask'[k].pc \notin {"none", "start"}
                                           \/ etask'[k] = etask[k]]_vars
    /\ [](\A id \in Slots :
             (annotations[id].exists
                 /\ ttask[annotations[id].audio].written = "failed") =>
                    /\ annotations[id].extended_transcript_status = "pending"
                    /\ ~EnrichmentEventSent(id))

\* A step of the transcription (enrichment) task of creation k.
TStepOf(k) == ttask[k].pc # "none" /\ ttask'[k] # ttask[k]

EStepOf(k) == etask[k].pc # "none" /\ etask'[k] # etask[k]

\* Row id differs after the step, in the fields of fs at most, and it is
\* the row of creation k.
WritesOnly(k, id, fs) ==
    annotations'[id] # annotations[id] =>
        /\ annotations[id].exists
        /\ annotations'[id].exists
        /\ annotations[id].audio = k
        /\ \A f \in DOMAIN annotations[id] :
              f \notin fs => annotations'[id][f] = annotations[id][f]

\* C25: a step of a task of one annotation changes no row but that
\* annotation's, and of it only the text and the status of its own track.
C25_TasksWriteOwnRow ==
    [][\A k \in Slots, id \in Slots :
          /\ TStepOf(k) =>
                WritesOnly(k, id, {"transcription", "transcription_status"})
          /\ (EStepOf(k) /\ ~TStepOf(k)) =>
                WritesOnly(k, id, {"extended_transcript",
                                   "extended_transcript_status"})]_vars

\* The annotation of creation k was created and is not stored any more.
Deleted(k) ==
    /\ n_created >= k
    /\ \A id \in Slots :
          ~(annotations[id].exists /\ annotations[id].audio = k)

\* C30: a deleted annotation is not stored again, and a step of one of its
\* tasks leaves the store as it is.
C30_DeletedStaysDeleted ==
    [][\A k \in Slots :
          Deleted(k) =>
             /\ Deleted(k)'
             /\ (TStepOf(k) \/ EStepOf(k)) => annotations' = annotations]_vars

(***************************************************************************)
(* Claims about the notification channel, checked under SpecChannel.       *)
(***************************************************************************)
\* A step takes task t to t2 at place next after its broadcast. A send that
\* raises leaves the task in the loop, at the next index, with no exception
\* caught; when the loop ends the task goes on as if every send had
\* returned, and if the registry is the one the loop began with, every
\* observer in it was sent the event.
SendFailureIsolated(t, t2, next) ==
    /\ (t.pc \in BroadcastPcs /\ t2.b_failed # t.b_failed /\ t2.pc = t.pc) =>
          /\ t2.bi = t.bi + 1
          /\ t2.error = t.error
    /\ t2.b_failed # {} => t2.pc \in BroadcastPcs
    /\ (t.pc \in BroadcastPcs /\ t2.pc # t.pc) =>
          /\ t2.pc = next
          /\ t2.error = t.error
          /\ (t.b_open /\ active_connections = t.b_reg) =>
                Range(active_connections) \subseteq t.b_sent

\* C10: a send that fails for one observer is caught: the broadcast goes on
\* to every other observer of the registry and never raises into the task.
C10_SendFailureIsolated ==
    [][\A k \in Creations :
          /\ SendFailureIsolated(ttask[k], ttask'[k],
                                 IF ttask[k].pc = "bcast_status"
                                 THEN "sleeping" ELSE "done")
          /\ SendFailureIsolated(etask[k], etask'[k],
                                 IF etask[k].pc = "bcast_status"
                                 THEN "calling" ELSE "done")]_vars

\* A broadcast whose send to the first observer raised has sent the event to
\* the second one.
C10_Witness ==
    \E k \in Creations :
        /\ ttask[k].pc \in BroadcastPcs
        /\ Len(ttask[k].b_reg) >= 2
        /\ ttask[k].b_reg[1] \in ttask[k].b_failed
        /\ ttask[k].b_reg[2] \in ttask[k].b_sent \ ttask[k].b_failed

\* A step is a send of the broadcast of task t (t2 after it): the recipient
\* was in the registry when the broadcast began and was not sent the event
\* before.
SentOnceToEarlyObservers(t, t2) ==
    (t.pc \in BroadcastPcs /\ t2.pc = t.pc /\ t2.bi # t.bi) =>
        /\ active_connections[t.bi + 1] \in Range(t2.b_reg)
        /\ active_connections[t.bi + 1] \notin t.b_sent

\* C11: an observer that connects after the broadcast of an event has
\* started is never sent that event, and no observer is sent an event twice.
C11_NoLateDelivery ==
    [][\A k \in Creations :
          /\ SentOnceToEarlyObservers(ttask[k], ttask'[k])
          /\ SentOnceToEarlyObservers(etask[k], etask'[k])]_vars

\* C12: in every reachable state the registry holds exactly the websockets
\* that are open, each of them once.
C12_RegistryIsLive ==
    /\ Range(active_connections) = {c \in Sockets : ws[c] = "open"}
    /\ \A i, j \in 1..Len(active_connections) :
          active_connections[i] = active_connections[j] => i = j

\* The step ends the broadcast of task t (t2 after it): every observer that
\* was in the registry when the broadcast began and is in it now was sent
\* the event.
EveryStayingObserverSent(t, t2) ==
    (t.pc \in BroadcastPcs /\ t2.pc # t.pc /\ t.b_open) =>
        Range(t.b_reg) \cap Range(active_connections) \subseteq t.b_sent

\* C27: under any interleaving of a broadcast with connects and disconnects
\* of other observers, every observer registered from the start to the end
\* of the broadcast is sent the event; the removal of one observer during
\* the broadcast never makes another one be skipped.
C27_NoObserverSkipped ==
    [][\A k \in Creations :
          /\ EveryStayingObserverSent(ttask[k], ttask'[k])
          /\ EveryStayingObserverSent(etask[k], etask'[k])]_vars

(***************************************************************************)
(* Claims about the range delivery, checked under SpecRange.               *)
(***************************************************************************)
FileSize == Len(disk.bytes)

\* The request reached the range logic: the row and the file exist.
Served == video_found /\ disk.exists

\* Bytes first..last of the file, counted from 0 as HTTP does.
FileSlice(first, last) == SubSeq(disk.bytes, first + 1, last + 1)

\* C1: for a file of size S and a header bytes=s-e with 0 <= s <= e < S, the
\* finished response body has e-s+1 bytes and is bytes s..e of the file.
C1_RangeBodyIsSlice ==
    \A s, e \in RangeNums :
        (/\ rpc = "done"
         /\ Served
         /\ range_header = RangeHeader(Str(s), Str(e))
         /\ s <= e
         /\ e < FileSize)
        => /\ Len(body) = e - s + 1
           /\ body = FileSlice(s, e)

\* A slice that starts in the first chunk of the big file and ends in its
\* last one has been streamed.
C1_Witness ==
    /\ rpc = "done"
    /\ Served
    /\ FileSize = BigSize
    /\ range_header = RangeHeader(Str(ChunkBytes - 1), Str(BigSize - 1))
    /\ Len(body) = ChunkBytes + 2

\* C2: a Range request whose parsed start or parsed end is >= the file size
\* (every parsed range on an empty file is one) is answered 416, with no
\* body and without reading a byte of the file.
C2_UnsatisfiableIs416 ==
    LET range_match == RangeMatch(range_header)
    IN /\ (/\ rpc # "request"
           /\ Served
           /\ range_header # NoHeader
           /\ ~ParseRaises(range_match)
           /\ \/ ParseStart(range_match) >= FileSize
              \/ ParseEnd(range_match, FileSize) >= FileSize
              \/ FileSize = 0)
          => /\ rpc = "done"
             /\ resp.status = 416
             /\ body = <<>>
             /\ bytes_read = 0
       /\ \A s, e \in RangeNums :
            (/\ rpc # "request"
             /\ Served
             /\ range_header = RangeHeader(Str(s), Str(e))
             /\ (s >= FileSize \/ e >= FileSize))
            => /\ resp.status = 416
               /\ body = <<>>
               /\ bytes_read = 0

\* The end of the range is the file size itself, one past the last byte.
C2_Witness ==
    /\ rpc = "done"
    /\ Served
    /\ FileSize = 2
    /\ range_header = RangeHeader(Str(0), Str(2))
    /\ resp.status = 416

\* C3: a satisfiable range is answered 206 with Content-Range
\* "bytes s-e/total", Accept-Ranges "bytes" and a Content-Length that is the
\* slice length e-s+1 (the length of the body when s <= e); a request with
\* no Range header is answered 200 with the whole file and Accept-Ranges
\* "bytes"; an unsatisfiable range is answered 416.
C3_StatusAndHeaders ==
    (rpc # "request" /\ Served) =>
        /\ range_header = NoHeader =>
              /\ resp.status = 200
              /\ resp.headers.AcceptRanges = "bytes"
              /\ body = disk.bytes
        /\ \A s, e \in RangeNums :
              range_header = RangeHeader(Str(s), Str(e)) =>
                 IF s >= FileSize \/ e >= FileSize
                 THEN resp.status = 416
                 ELSE /\ resp.status = 206
                      /\ resp.headers.ContentRange =
                            <<"b", "y", "t", "e", "s", " ">> \o Str(s) \o <<"-">>
                                \o Str(e) \o <<"/">> \o Str(FileSize)
                      /\ resp.headers.AcceptRanges = "bytes"
                      /\ resp.headers.ContentLength = Str(e - s + 1)
                      /\ (rpc = "done" /\ s <= e) =>
                            resp.headers.ContentLength = Str(Len(body))

\* A 206 for a range of several bytes of a small file.
C3_Witness ==
    /\ rpc = "done"
    /\ Served
    /\ FileSize = 2
    /\ range_header = RangeHeader(Str(0), Str(1))
    /\ resp.status = 206
    /\ resp.headers.ContentLength = <<"2">>

\* C4: an omitted start is 0 and an omitted end is S-1: bytes=N- serves bytes
\* N..S-1, bytes=-N serves bytes 0..N, and the declared length is
\* end-start+1.
C4_OmittedBounds ==
    (rpc = "done" /\ Served) =>
        /\ \A n \in RangeNums :
              (range_header = RangeHeader(Str(n), <<>>) /\ n < FileSize) =>
                 /\ resp.status = 206
                 /\ body = FileSlice(n, FileSize - 1)
                 /\ resp.headers.ContentLength = Str(FileSize - n)
        /\ \A n \in RangeNums :
              (range_header = RangeHeader(<<>>, Str(n)) /\ n < FileSize) =>
                 /\ resp.status = 206
                 /\ body = FileSlice(0, n)
                 /\ resp.headers.ContentLength = Str(n + 1)
        /\ (range_header = RangeHeader(<<>>, <<>>) /\ FileSize > 0) =>
                 /\ resp.status = 206
                 /\ body = disk.bytes
                 /\ resp.headers.ContentLength = Str(FileSize)

\* bytes=N- on the big file, N the start of its second chunk.
C4_Witness ==
    /\ rpc = "done"
    /\ Served
    /\ FileSize = BigSize
    /\ range_header = RangeHeader(Str(ChunkBytes), <<>>)
    /\ Len(body) = ChunkBytes + 1

\* C28: every finished 206 response is well formed: the range it serves
\* has start <= end, and its Content-Length is at least 1 and is the number
\* of bytes of the body; a header whose start is greater than its end is
\* never answered 206 with a zero, negative or wrong Content-Length.
C28_PartialContentWellFormed ==
    LET range_match == RangeMatch(range_header)
        start == ParseStart(range_match)
        end == ParseEnd(range_match, FileSize)
    IN (rpc = "done" /\ resp.status = 206) =>
          /\ start <= end
          /\ Len(body) >= 1
          /\ resp.headers.ContentLength = Str(Len(body))

\* C26: the streaming loop, once started, ends; a step of it reads at most 8192 bytes,
\* and what it yields is what it takes off the slice that remains, so that
\* the total never exceeds the slice length end-start+1, also when the file
\* has become shorter than it was measured: the loop stops at its end.
C26_StreamingBounded ==
    /\ [](resp.status = 206 =>
             /\ Len(body) = bytes_read
             /\ bytes_read > 0 => remaining >= 0
             /\ \A s, e \in RangeNums :
                   (range_header = RangeHeader(Str(s), Str(e)) /\ s <= e) =>
                       bytes_read <= e - s + 1)
    /\ [][rpc = "streaming" =>
             /\ bytes_read' >= bytes_read
             /\ bytes_read' - bytes_read <= ChunkBytes
             /\ bytes_read' - bytes_read = remaining - remaining']_vars
    /\ (rpc = "streaming") ~> (rpc = "done")

\* The big file was cut to one chunk after its first chunk was read: the
\* loop ended at the end of the file with part of the slice unread.
C26_Witness ==
    /\ rpc = "done"
    /\ resp.status = 206
    /\ bytes_read = ChunkBytes
    /\ remaining > 0
    /\ Len(disk.bytes) = ChunkBytes

(***************************************************************************)
(* Claims about the fields of an annotation.                               *)
(***************************************************************************)
\* The fields of an annotation a partial update may or may not name, with
\* the offsets and the recording, which no update names.
PartialUpdateFields ==
    RowFields \cup {"start_time", "end_time", "audio"}

\* The step is a served update_annotation.
UpdateServed == reply'.op = "update_annotation" /\ reply'.status = 200

\* C13: a partial update of an annotation changes only the fields it
\* supplies: each of transcription, transcription_status,
\* extended_transcript, extended_transcript_status, feedback,
\* feedback_choices, the offsets and the recording that the update omits
\* keeps the value it had before the update.
C13_OmittedFieldsKept ==
    [][UpdateServed =>
          \A f \in PartialUpdateFields \ DOMAIN reply'.args :
              annotations'[reply'.id][f] = annotations[reply'.id][f]]_vars

\* A two-field update was served on an annotation whose other fields had
\* been set before: they still hold what was set.
C13_Witness ==
    /\ reply.op = "update_annotation" /\ reply.status = 200
    /\ DOMAIN reply.args = {"transcription", "extended_transcript"}
    /\ annotations[1].transcription = "edited"
    /\ annotations[1].extended_transcript = "rewritten"
    /\ annotations[1].transcription_status = "completed"
    /\ annotations[1].feedback = Some(1)
    /\ ~annotations[1].feedback_choices.null

\* The served update supplies no value that differs from the stored one: it
\* is empty, or it repeats an update already applied.
NoChangedFields ==
    /\ UpdateServed
    /\ \A f \in DOMAIN reply'.args :
          annotations[reply'.id][f] = reply'.args[f]

\* C14 as stated: an update with no changed fields leaves every other field
\* of the annotation, the modification time included, as it was.
C14_AllOtherFieldsIdentical ==
    [][NoChangedFields =>
          \A f \in DOMAIN annotations[reply'.id] \ DOMAIN reply'.args :
              annotations'[reply'.id][f] = annotations[reply'.id][f]]_vars

\* C14, amended: an update of an annotation with no changed fields (empty,
\* or the same update a second time) leaves the annotation as it was but for
\* updated_at, which is set to the time of the call.
C14_IdenticalButUpdatedAt ==
    [][NoChangedFields =>
          /\ annotations' =
                [annotations EXCEPT ![reply'.id].updated_at = clock]
          /\ clock' = clock]_vars

\* An empty update was served after time had passed since the creation.
C14_Witness ==
    /\ reply.op = "update_annotation" /\ reply.status = 200
    /\ reply.args = NothingSet
    /\ annotations[1].created_at = 0
    /\ annotations[1].updated_at = MaxClock
    /\ annotations[1].transcription = "edited"

\* The step is a served submit_feedback.
FeedbackServed == reply'.op = "submit_feedback" /\ reply'.status = 200

\* What a read after the step answers for the annotation of the step, and
\* its entry in an export.
ReadAfter == AnnotationResponse(annotations', reply'.id)

ExportAfter == ExportEntry(annotations'[reply'.id])

\* The feedback of the request is what is read back: the value as it was
\* sent, and choices that decode to the vector that was sent.
FeedbackReadBack ==
    /\ ReadAfter.feedback = Some(reply'.args.feedback)
    /\ ~ReadAfter.feedback_choices.null
    /\ JsonLoads(ReadAfter.feedback_choices.v) = reply'.args.feedback_choices
    /\ ExportAfter.feedback = Some(reply'.args.feedback)
    /\ ExportAfter.feedback_choices = Some(reply'.args.feedback_choices)

\* C17 as stated: after a served submit_feedback the feedback is read back
\* as sent and no other field of the annotation, the modification time
\* included, has changed.
C17_FeedbackOnly ==
    [][FeedbackServed =>
          /\ FeedbackReadBack
          /\ \A f \in DOMAIN annotations[reply'.id] \
                         {"feedback", "feedback_choices"} :
                annotations'[reply'.id][f] = annotations[reply'.id][f]]_vars

\* C17, amended: after submit_feedback with f in {0,1} and a choice vector v
\* on a stored annotation, a read of the annotation answers feedback = f and
\* choices that decode to v, for f = 0 as for f = 1, and no other field of
\* the annotation is changed except updated_at, which is set to the time of
\* the call.
C17_FeedbackAndUpdatedAt ==
    [][FeedbackServed =>
          /\ FeedbackReadBack
          /\ ReadAfter.updated_at = clock
          /\ \A f \in DOMAIN annotations[reply'.id] \
                         {"feedback", "feedback_choices", "updated_at"} :
                annotations'[reply'.id][f] = annotations[reply'.id][f]]_vars

\* A thumbs down with a five-element vector was stored on an annotation
\* whose transcription had been edited.
C17_Witness ==
    /\ reply.op = "submit_feedback" /\ reply.status = 200
    /\ reply.args.feedback = 0
    /\ reply.args.feedback_choices = <<1, 0, 0, 1, 0>>
    /\ annotations[1].feedback = Some(0)
    /\ annotations[1].feedback_choices = Some(JsonDumps(<<1, 0, 0, 1, 0>>))
    /\ annotations[1].transcription = "edited"
    /\ annotations[1].updated_at > annotations[1].created_at

(***************************************************************************)
(* Claims about the catalog.                                               *)
(***************************************************************************)
\* The step is a served delete_video.
VideoDeleted == reply'.op = "delete_video" /\ reply'.status = 200

ClientInputError ==
    \/ /\ reply.op = "create_annotation"
       /\ \/ reply.args.start_time >= reply.args.end_time
          \/ reply.args.start_time < 0
          \/ reply.args.end_time < 0
    \/ /\ reply.op = "upload_video"
       /\ reply.args.ext \notin SupportedVideoFormats
    \/ /\ reply.op = "get_gdrive_videos"
       /\ reply.args = ""

\* C18: a request rejected for an error of the client's input is answered
\* with a 4xx status, never with a 5xx status.
C18_ClientErrorIs4xx ==
    ClientInputError => reply.status \in 400..499

\* The step answers an upload the handler must reject: the extension is not
\* supported or the content is larger than the maximum.
RejectedUpload ==
    /\ reply'.op = "upload_video"
    /\ \/ reply'.args.ext \notin SupportedVideoFormats
       \/ TooLarge(reply'.args.size)

\* The step answers a creation the handler must reject: start_time >=
\* end_time, or an offset outside the allowed range.
RejectedCreate ==
    /\ reply'.op = "create_annotation"
    /\ \/ reply'.args.start_time >= reply'.args.end_time
       \/ ~AnnotationCreateValid(reply'.args.start_time, reply'.args.end_time)

\* C19: a rejected upload_video or create_annotation is answered with an
\* error and leaves no new record in the store, no new video or audio file
\* on disk, no broadcast and no background task.
C19_RejectionChangesNothing ==
    [][(RejectedUpload \/ RejectedCreate) =>
          /\ reply'.status >= 400
          /\ ~reply'.broadcast
          /\ UNCHANGED <<videos, annotations, video_files, audio_files,
                         ttask, etask>>]_vars

\* The handlers addressed to a video, to an annotation and to a project.
VideoOps ==
    {"get_video", "get_video_file", "update_video", "delete_video",
     "export_annotations", "create_annotation"}

AnnotationOps ==
    {"get_annotation", "update_annotation", "delete_annotation",
     "submit_feedback"}

ProjectOps ==
    {"get_project", "get_project_videos", "update_project", "delete_project"}

\* The step answers a request addressed to an identifier that is not in the
\* store, or the streaming of a stored video whose file is not on disk.
AddressedToMissing ==
    \/ reply'.op \in VideoOps /\ ~RowExists(videos, reply'.id)
    \/ reply'.op \in AnnotationOps /\ ~RowExists(annotations, reply'.id)
    \/ reply'.op \in ProjectOps /\ ~RowExists(projects, reply'.id)
    \/ /\ reply'.op = "get_video_file"
       /\ RowExists(videos, reply'.id)
       /\ videos[reply'.id].filepath \notin video_files

\* C20: an operation addressed to a video, annotation or project identifier
\* that is not in the store, and the streaming of a video whose file is
\* missing on disk, is answered 404 and changes nothing: no row, no file, no
\* export, no task and no broadcast.
C20_MissingIs404 ==
    [][AddressedToMissing =>
          /\ reply'.status = 404
          /\ ~reply'.broadcast
          /\ UNCHANGED <<projects, videos, video_files, n_videos, exports,
                         clock, pvars, rvars>>]_vars

\* The file of a stored video that has an annotation was asked for after
\* the file had been removed from disk, and 404 was answered.
C20_Witness ==
    /\ reply.op = "get_video_file" /\ reply.status = 404
    /\ RowExists(videos, reply.id)
    /\ videos[reply.id].filepath \notin video_files
    /\ AnnotationsOf(annotations, reply.id) # {}

(***************************************************************************)
(* Claims about projects.                                                  *)
(***************************************************************************)
\* The step is a served delete_project.
ProjectDeleted == reply'.op = "delete_project" /\ reply'.status = 200

====
